---- MODULE Spec2Model ----
(***************************************************************************)
(* murex: the project registry (project.rs), the template instantiator     *)
(* (templates.rs) and the artifact installer (path_manager.rs), with the   *)
(* parts of the filesystem they read and write.                            *)
(***************************************************************************)
EXTENDS Integers, Sequences, FiniteSets, TLC

VARIABLES
    registry,   \* ProjectRegistry.projects of the live registry / manager
    doc,        \* the persisted registry document, projects.json
    disk,       \* the entries of projects_dir, one per project name
    templates,  \* the persisted custom template table, templates.json
    binDir,     \* the entries of bin_dir, one per name
    unix,       \* whether the build is one for cfg(unix)
    procs,      \* the calls in progress: where each process is, and its locals
    custom_templates,  \* TemplateManager.custom_templates of the live manager
    hist,       \* history: what was passed to add_project, per name
    last        \* the last operation, its arguments and its result

vars == <<registry, doc, disk, templates, binDir, unix, procs, custom_templates,
         hist, last>>

(***************************************************************************)
(* Bounds of the model.                                                    *)
(***************************************************************************)
\* the project names the operations are called with
Names == {"foo", "bar"}
\* the clock readings chrono::Utc::now() can give
MaxClock == 2
Clock == 1..MaxClock

(***************************************************************************)
(* Values.                                                                 *)
(***************************************************************************)
\* Option<String>
None == <<>>
Some(x) == <<x>>

\* the processes that run the program side by side, and a process that is
\* in no call: it has loaded nothing, changed nothing and holds no entry
Procs == {"p1", "p2"}
IdleProcs ==
    [p \in Procs |->
        [pc |-> "idle", base |-> <<>>, registry |-> <<>>, update |-> None,
         after |-> FALSE, saved |-> 0, name |-> "", path |-> None]]

\* config.projects_dir, and Path::join on it
ProjectsDir == <<"murex-projects">>
PathJoin(base, rel) == base \o rel
ProjectPath(name) == PathJoin(ProjectsDir, <<name>>)

\* chrono's format("%Y-%m-%d %H:%M:%S UTC") of a clock reading
FormatUtc(t) == <<t, "UTC">>

\* Project::new
\* a Project::new that stamps the record as built
ProjectNewBuilt(name, path, template, t) ==
    [name |-> name, path |-> path, template |-> template,
     created_at |-> FormatUtc(t), last_built |-> Some(FormatUtc(t))]

ProjectNew(name, path, template, t) ==
    [name |-> name, path |-> path, template |-> template,
     created_at |-> FormatUtc(t), last_built |-> None]

(***************************************************************************)
(* The registry document: serde_json of ProjectRegistry.                   *)
(***************************************************************************)
JsonNull == <<"null">>
JsonString(s) == <<"string", s>>

ProjectToJson(p) ==
    [name |-> JsonString(p.name),
     path |-> JsonString(p.path),
     template |-> JsonString(p.template),
     created_at |-> JsonString(p.created_at),
     last_built |-> IF p.last_built = None THEN JsonNull
                    ELSE JsonString(p.last_built[1])]

\* a reader that takes every last_built for an absent one
ProjectFromJsonNoBuilt(j) ==
    [name |-> j.name[2],
     path |-> j.path[2],
     template |-> j.template[2],
     created_at |-> j.created_at[2],
     last_built |-> None]

ProjectFromJson(j) ==
    [name |-> j.name[2],
     path |-> j.path[2],
     template |-> j.template[2],
     created_at |-> j.created_at[2],
     last_built |-> IF j.last_built[1] = "null" THEN None
                    ELSE Some(j.last_built[2])]

RegistryToJson(reg) == [i \in 1..Len(reg) |-> ProjectToJson(reg[i])]
RegistryFromJson(js) == [i \in 1..Len(js) |-> ProjectFromJson(js[i])]

DocAbsent == [state |-> "absent", json |-> <<>>]
DocMalformed == [state |-> "malformed", json |-> <<>>]
DocOf(reg) == [state |-> "ok", json |-> RegistryToJson(reg)]

(***************************************************************************)
(* ProjectRegistry (in memory).                                            *)
(***************************************************************************)
\* Vec::retain(|p| p.name != name)
RECURSIVE RetainOthers(_, _)
RetainOthers(reg, name) ==
    IF reg = <<>> THEN <<>>
    ELSE IF Head(reg).name # name
         THEN <<Head(reg)>> \o RetainOthers(Tail(reg), name)
         ELSE RetainOthers(Tail(reg), name)

\* an add_project that only pushes
add_project_push(reg, project) == Append(reg, project)

add_project(reg, project) == Append(RetainOthers(reg, project.name), project)

remove_project(reg, name) == RetainOthers(reg, name)

\* iter().find(|p| p.name == name): the first match, as an Option
RECURSIVE get_project(_, _)
get_project(reg, name) ==
    IF reg = <<>> THEN None
    ELSE IF Head(reg).name = name THEN Some(Head(reg))
         ELSE get_project(Tail(reg), name)

list_projects(reg) == reg

RegistryNames(reg) == {reg[i].name : i \in 1..Len(reg)}

\* ProjectRegistry::load: the registry it returns, when it returns one
LoadResult(d) == IF d.state = "absent" THEN "Ok"
                 ELSE IF d.state = "malformed" THEN "ParseError"
                 ELSE "Ok"
LoadValue(d) == IF d.state = "ok" THEN RegistryFromJson(d.json) ELSE <<>>

\* ProjectRegistry::save: fs::write creates (truncates) the file and then
\* writes it; a failure before the file is opened leaves the document as it
\* was, a failure after leaves a truncated one
SaveFaults == {"none", "open", "write"}
SaveDoc(reg, d, fault) ==
    CASE fault = "none" -> DocOf(reg)
      [] fault = "open" -> d
      [] OTHER -> DocMalformed
SaveResult(fault) == IF fault = "none" THEN "Ok" ELSE "IoError"

(***************************************************************************)
(* The filesystem under projects_dir.  An entry of projects_dir is absent, *)
(* a regular file or a directory; a directory holds nodes (files and       *)
(* subdirectories) by relative path.  File data is a sequence of text      *)
(* pieces.                                                                 *)
(***************************************************************************)
Absent == [kind |-> "absent", files |-> {}]
RegularFile == [kind |-> "file", files |-> {}]
DirWith(nodes) == [kind |-> "dir", files |-> nodes]

FileNode(path, data) == [path |-> path, type |-> "file", data |-> data]
DirNode(path) == [path |-> path, type |-> "dir", data |-> <<>>]

NodePaths(nodes) == {e.path : e \in nodes}

\* the project name and the relative path inside the project of a path
\* under projects_dir
EntryName(path) == path[Len(ProjectsDir) + 1]
RelPath(path) == SubSeq(path, Len(ProjectsDir) + 2, Len(path))

\* Path::is_dir in the place of Path::exists
PathIsDir(d, path) ==
    IF RelPath(path) = <<>> THEN d[EntryName(path)].kind = "dir"
    ELSE /\ d[EntryName(path)].kind = "dir"
         /\ \E e \in d[EntryName(path)].files :
                e.path = RelPath(path) /\ e.type = "dir"

\* Path::exists of a path under projects_dir (no links live there)
PathExists(d, path) ==
    IF RelPath(path) = <<>> THEN d[EntryName(path)].kind # "absent"
    ELSE /\ d[EntryName(path)].kind = "dir"
         /\ RelPath(path) \in NodePaths(d[EntryName(path)].files)

\* fs::write: creates the file or replaces its data
WriteFile(nodes, path, data) ==
    {e \in nodes : e.path # path} \cup {FileNode(path, data)}

\* fs::create_dir_all of a subdirectory: nothing when it is there already
CreateDirAll(nodes, path) ==
    IF path \in NodePaths(nodes) THEN nodes ELSE nodes \cup {DirNode(path)}

\* one filesystem call of an instantiation
FsWrite(path, data) == [call |-> "write", path |-> path, data |-> data]
FsMkdir(path) == [call |-> "create_dir_all", path |-> path, data |-> <<>>]

ApplyCall(nodes, c) ==
    IF c.call = "write" THEN WriteFile(nodes, c.path, c.data)
    ELSE CreateDirAll(nodes, c.path)

\* the first k calls of a sequence of calls, applied in order
RECURSIVE ApplyCalls(_, _, _)
ApplyCalls(nodes, calls, k) ==
    IF k = 0 \/ calls = <<>> THEN nodes
    ELSE ApplyCalls(ApplyCall(nodes, Head(calls)), Tail(calls), k - 1)

(***************************************************************************)
(* The built-in templates: the filesystem calls of each create_*_project,  *)
(* in order, with project_name put where format! puts it.                  *)
(***************************************************************************)
BuiltIn == {"rust", "python", "node", "go", "bash", "zsh", "bun"}

create_rust_project(n) ==
    << FsWrite(<<"Cargo.toml">>, <<"[package] name = ", n, " [dependencies]">>),
       FsMkdir(<<"src">>),
       FsWrite(<<"src", "main.rs">>,
               <<"#[command(name = ", n, ")] Welcome to ", n, "!">>),
       FsWrite(<<"README.md">>, <<"# ", n, " cargo build --release">>) >>

create_python_project(n) ==
    << FsWrite(<<"main.py">>, <<"python3 ", n, " Welcome to ", n, "!">>),
       FsWrite(<<"requirements.txt">>, <<"# Add your dependencies here">>),
       FsWrite(<<"README.md">>, <<"# ", n, " pip install">>) >>

create_node_project(n) ==
    << FsWrite(<<"package.json">>, <<"name: ", n, " bin: ", n, ": ./index.js">>),
       FsWrite(<<"index.js">>, <<"node .name(", n, ") Welcome to ", n, "!">>),
       FsWrite(<<"README.md">>, <<"# ", n, " npm install">>) >>

create_go_project(n) ==
    << FsWrite(<<"go.mod">>, <<"module ", n, " go 1.21">>),
       FsWrite(<<"main.go">>, <<"Use: ", n, " Welcome to ", n, "!">>),
       FsWrite(<<"README.md">>, <<"# ", n, " go build -o ", n, " ./", n, " hello">>) >>

create_bash_project(n) ==
    << FsWrite(<<"main.sh">>,
               <<"#!/bin/bash # ", n, " Usage: ", n, " Welcome to ", n, "!">>),
       FsWrite(<<"README.md">>, <<"# ", n, " chmod +x main.sh">>) >>

create_zsh_project(n) ==
    << FsWrite(<<"main.zsh">>,
               <<"#!/bin/zsh # ", n, " Usage: ", n, " Welcome to ", n, "!">>),
       FsWrite(<<"README.md">>, <<"# ", n, " chmod +x main.zsh">>) >>

create_bun_project(n) ==
    << FsWrite(<<"bun.js">>, <<"bun .name(", n, ") Welcome to ", n, "!">>),
       FsWrite(<<"README.md">>, <<"# ", n, " bun install">>) >>

\* a dispatch that writes the Rust template whatever the identifier
BuiltInCallsAllRust(t, n) == create_rust_project(n)

BuiltInCalls(t, n) ==
    CASE t = "rust" -> create_rust_project(n)
      [] t = "python" -> create_python_project(n)
      [] t = "node" -> create_node_project(n)
      [] t = "go" -> create_go_project(n)
      [] t = "bash" -> create_bash_project(n)
      [] t = "zsh" -> create_zsh_project(n)
      [] t = "bun" -> create_bun_project(n)

(***************************************************************************)
(* Custom templates: a registered source directory, copied and then        *)
(* rewritten.                                                              *)
(***************************************************************************)
Placeholder == "{{PROJECT_NAME}}"

\* the one template source directory of the model and what it holds, in
\* the order read_dir lists it
TemplateDir == <<"my-template">>
TemplateSource ==
    << FileNode(<<"README.md">>, <<"# ", Placeholder, " is run as ", Placeholder>>),
       DirNode(<<"assets">>),
       FileNode(<<"assets", "logo.png">>, <<"PNG ", Placeholder>>),
       FileNode(<<"LICENSE">>, <<"(c) the authors of ", Placeholder>>) >>

CustomTemplate(name, path) == [name |-> name, path |-> path, description |-> None]

\* HashMap::get on the custom template table
TemplateNames(tpls) == {c.name : c \in tpls}
TemplateGet(tpls, name) == CHOOSE c \in tpls : c.name = name

\* Path::extension of the file names of the model
Extension(path) ==
    LET f == path[Len(path)] IN
    CASE f = "Cargo.toml" -> Some("toml")
      [] f = "main.rs" -> Some("rs")
      [] f = "README.md" -> Some("md")
      [] f = "main.py" -> Some("py")
      [] f = "requirements.txt" -> Some("txt")
      [] f = "package.json" -> Some("json")
      [] f = "index.js" -> Some("js")
      [] f = "go.mod" -> Some("mod")
      [] f = "main.go" -> Some("go")
      [] f = "main.sh" -> Some("sh")
      [] f = "main.zsh" -> Some("zsh")
      [] f = "bun.js" -> Some("js")
      [] f = "logo.png" -> Some("png")
      [] f = "notes.txt" -> Some("txt")
      [] OTHER -> None

TextExtensions == {"rs", "py", "js", "go", "md", "toml", "json"}

IsTextFile(path) ==
    /\ Extension(path) # None
    /\ Extension(path)[1] \in TextExtensions

\* str::replace("{{PROJECT_NAME}}", project_name)
ReplacePlaceholder(data, n) ==
    [i \in 1..Len(data) |-> IF data[i] = Placeholder THEN n ELSE data[i]]

\* the relative paths a project directory can hold, in the order read_dir
\* lists them (a directory before what is in it)
ReadDirOrder(n) ==
    << <<"Cargo.toml">>, <<"src">>, <<"src", "main.rs">>, <<"README.md">>,
       <<"main.py">>, <<"requirements.txt">>, <<"package.json">>,
       <<"index.js">>, <<"go.mod">>, <<"main.go">>, <<"main.sh">>,
       <<"main.zsh">>, <<"bun.js">>, <<"assets">>, <<"assets", "logo.png">>,
       <<"LICENSE">>, <<"notes.txt">>, <<"target">>, <<"target", "release">>,
       <<"target", "release", n>>, <<"target", "debug">>,
       <<"target", "debug", n>>, <<n>> >>

NodeAt(nodes, path) == CHOOSE e \in nodes : e.path = path

\* copy_dir_recursive: create_dir_all for a directory, fs::copy for a file
RECURSIVE CopyCalls(_)
CopyCalls(src) ==
    IF src = <<>> THEN <<>>
    ELSE (IF Head(src).type = "dir" THEN <<FsMkdir(Head(src).path)>>
          ELSE <<FsWrite(Head(src).path, Head(src).data)>>)
         \o CopyCalls(Tail(src))

\* a walk that rewrites every file, whatever its extension
RECURSIVE ReplaceCallsEveryFile(_, _, _)
ReplaceCallsEveryFile(nodes, order, n) ==
    IF order = <<>> THEN <<>>
    ELSE (IF /\ Head(order) \in NodePaths(nodes)
             /\ NodeAt(nodes, Head(order)).type = "file"
          THEN <<FsWrite(Head(order),
                         ReplacePlaceholder(NodeAt(nodes, Head(order)).data, n))>>
          ELSE <<>>)
         \o ReplaceCallsEveryFile(nodes, Tail(order), n)

\* replace_placeholders_in_directory walks the project directory itself:
\* every file there with a text extension is read, replaced and written
RECURSIVE ReplaceCalls(_, _, _)
ReplaceCalls(nodes, order, n) ==
    IF order = <<>> THEN <<>>
    ELSE (IF /\ Head(order) \in NodePaths(nodes)
             /\ NodeAt(nodes, Head(order)).type = "file"
             /\ IsTextFile(Head(order))
          THEN <<FsWrite(Head(order),
                         ReplacePlaceholder(NodeAt(nodes, Head(order)).data, n))>>
          ELSE <<>>)
         \o ReplaceCalls(nodes, Tail(order), n)

\* create_from_custom_template: the calls it makes on a directory holding
\* `nodes`
create_from_custom_template(nodes, n) ==
    LET copy == CopyCalls(TemplateSource)
        copied == ApplyCalls(nodes, copy, Len(copy))
    IN copy \o ReplaceCalls(copied, ReadDirOrder(n), n)

(***************************************************************************)
(* TemplateManager::create_project_from_template on the entry of           *)
(* projects_dir it is given.  `fault` is the filesystem call that fails:   *)
(* 0 for none, 1 for the create_dir_all of the project directory, k + 1    *)
(* for the k-th call of the template.  A failing call leaves no trace.     *)
(***************************************************************************)
IsKnownTemplate(t, tpls) == t \in BuiltIn \/ t \in TemplateNames(tpls)

\* a dispatch that consults the custom template table first
TemplateCallsCustomFirst(t, nodes, n, tpls) ==
    IF t \in TemplateNames(tpls) THEN create_from_custom_template(nodes, n)
    ELSE IF t \in BuiltIn THEN BuiltInCalls(t, n)
    ELSE <<>>

\* the calls of the template dispatched to, on a directory holding `nodes`
TemplateCalls(t, nodes, n, tpls) ==
    IF t \in BuiltIn THEN BuiltInCalls(t, n)
    ELSE IF t \in TemplateNames(tpls) THEN create_from_custom_template(nodes, n)
    ELSE <<>>

\* a dispatch that falls back to the Rust template for an unknown one
create_project_from_template_fallback(t, entry, n, tpls, fault) ==
    IF fault = 1 \/ entry.kind = "file"
    THEN [result |-> "IoError", at |-> "create_dir_all", entry |-> entry]
    ELSE LET nodes == entry.files
             calls == IF IsKnownTemplate(t, tpls)
                      THEN TemplateCalls(t, nodes, n, tpls)
                      ELSE create_rust_project(n)
         IN IF fault >= 2 /\ fault <= Len(calls) + 1
            THEN [result |-> "IoError", at |-> "template",
                  entry |-> DirWith(ApplyCalls(nodes, calls, fault - 2))]
            ELSE [result |-> "Ok", at |-> "",
                  entry |-> DirWith(ApplyCalls(nodes, calls, Len(calls)))]

create_project_from_template(t, entry, n, tpls, fault) ==
    IF fault = 1 \/ entry.kind = "file"
    THEN [result |-> "IoError", at |-> "create_dir_all", entry |-> entry]
    ELSE LET nodes == entry.files
             calls == TemplateCalls(t, nodes, n, tpls)
         IN IF ~IsKnownTemplate(t, tpls)
            THEN [result |-> "UnknownTemplate", at |-> "template",
                  entry |-> DirWith(nodes)]
            ELSE IF fault >= 2 /\ fault <= Len(calls) + 1
            THEN [result |-> "IoError", at |-> "template",
                  entry |-> DirWith(ApplyCalls(nodes, calls, fault - 2))]
            ELSE [result |-> "Ok", at |-> "",
                  entry |-> DirWith(ApplyCalls(nodes, calls, Len(calls)))]

\* the number of filesystem calls a fault can hit
NumCalls(t, entry, n, tpls) == 1 + Len(TemplateCalls(t, entry.files, n, tpls))

(***************************************************************************)
(* fs::remove_dir_all of a project directory: everything in it is removed, *)
(* what a directory holds before the directory, and then the directory.    *)
(* `fault` is the removal that fails, 0 for none.                          *)
(***************************************************************************)
\* the paths among order[1..i] that `paths` holds, the last first
RECURSIVE PresentFrom(_, _, _)
PresentFrom(order, i, paths) ==
    IF i = 0 THEN <<>>
    ELSE (IF order[i] \in paths THEN <<order[i]>> ELSE <<>>)
         \o PresentFrom(order, i - 1, paths)

RemovalOrder(entry, n) ==
    PresentFrom(ReadDirOrder(n), Len(ReadDirOrder(n)), NodePaths(entry.files))

NumRemovals(entry) == Cardinality(entry.files) + 1

\* a removal that empties the directory and leaves it there
remove_dir_contents(entry, n, fault) ==
    LET order == RemovalOrder(entry, n)
        gone(k) == {order[i] : i \in 1..k}
    IN IF entry.kind = "file"
       THEN [result |-> "IoError", entry |-> entry]
       ELSE IF fault >= 1 /\ fault <= NumRemovals(entry)
       THEN [result |-> "IoError",
             entry |-> DirWith({e \in entry.files : e.path \notin gone(fault - 1)})]
       ELSE [result |-> "Ok", entry |-> DirWith({})]

remove_dir_all(entry, n, fault) ==
    LET order == RemovalOrder(entry, n)
        gone(k) == {order[i] : i \in 1..k}
    IN IF entry.kind = "file"
       THEN [result |-> "IoError", entry |-> entry]
       ELSE IF fault >= 1 /\ fault <= NumRemovals(entry)
       THEN [result |-> "IoError",
             entry |-> DirWith({e \in entry.files : e.path \notin gone(fault - 1)})]
       ELSE [result |-> "Ok", entry |-> Absent]

(***************************************************************************)
(* The record of the last operation: the call, the name and the template   *)
(* it was given, its result, the step that returned the error, and the     *)
(* value returned.                                                         *)
(***************************************************************************)
Op(op, name, arg, result, at, value) ==
    [op |-> op, name |-> name, arg |-> arg, result |-> result, at |-> at,
     value |-> value]

NoOp == Op("init", "", "", "Ok", "", None)

\* The history of the calls made on a ProjectRegistry (SpecRegistry below):
\* hist.inSync: every load so far came right after a successful save, so
\*     the registry in memory is the empty one as changed by the calls
\* hist.added[n]: the record most recently passed to add_project for n
\* hist.replaced: an add_project has replaced a different record of its name
\* The calls are followed only while inSync holds.
HistInit == [added |-> [n \in Names |-> None], inSync |-> TRUE,
             replaced |-> FALSE]
HistLost == [added |-> [n \in Names |-> None], inSync |-> FALSE,
             replaced |-> FALSE]

HistAdd(h, reg, project) ==
    IF ~h.inSync THEN h
    ELSE [h EXCEPT !.added[project.name] = Some(project),
                   !.replaced = h.replaced
                                \/ (/\ get_project(reg, project.name) # None
                                    /\ get_project(reg, project.name) # Some(project))]

HistLoad(h, l) ==
    IF h.inSync /\ l.op = "save" /\ l.result = "Ok" THEN h ELSE HistLost

(***************************************************************************)
(* ProjectManager.                                                         *)
(***************************************************************************)
\* ProjectManager::new: ProjectRegistry::load
ManagerNew ==
    /\ registry' = IF LoadResult(doc) = "Ok" THEN LoadValue(doc) ELSE registry
    /\ last' = Op("new", "", "", LoadResult(doc),
                  IF LoadResult(doc) = "Ok" THEN "" ELSE "load", None)
    /\ UNCHANGED <<doc, disk, templates, binDir, unix, procs, custom_templates, hist>>

\* the fault of the save that follows `calls` filesystem calls
SaveFaultAt(fault, calls) ==
    IF fault = calls + 1 THEN "open"
    ELSE IF fault = calls + 2 THEN "write"
    ELSE "none"

\* the filesystem calls create_project(n, t) gets to make: none when the
\* path is taken, the create_dir_all alone for an unknown template, else
\* those of the template and the two of the save
CreatePoints(n, t) ==
    IF PathExists(disk, ProjectPath(n)) THEN 0
    ELSE IF ~IsKnownTemplate(t, templates) THEN 1
    ELSE NumCalls(t, disk[n], n, templates) + 2

\* the clock is read only by a create_project that gets to Project::new
ReadsClock(n, t, fault) ==
    /\ ~PathExists(disk, ProjectPath(n))
    /\ IsKnownTemplate(t, templates)
    /\ (fault = 0 \/ fault > NumCalls(t, disk[n], n, templates))

\* what a create_project leaves when it returns at the existence check
Untouched(result, at) ==
    [registry |-> registry, doc |-> doc, disk |-> disk,
     result |-> result, at |-> at, value |-> None]

\* a create_project that records the project before it instantiates it
create_project_registers_first(n, t, ts, fault) ==
    LET path == ProjectPath(n)
        calls == NumCalls(t, disk[n], n, templates)
        made == create_project_from_template(t, disk[n], n, templates, fault)
        project == ProjectNew(n, path, t, ts)
        sfault == SaveFaultAt(fault, calls)
        added == add_project(registry, project)
    IN IF PathExists(disk, path)
       THEN Untouched("AlreadyExists", "exists")
       ELSE [registry |-> added, doc |-> SaveDoc(added, doc, sfault),
             disk |-> [disk EXCEPT ![n] = made.entry],
             result |-> IF made.result # "Ok" THEN made.result
                        ELSE SaveResult(sfault),
             at |-> IF made.result # "Ok" THEN made.at
                    ELSE IF sfault = "none" THEN "" ELSE "save",
             value |-> IF made.result = "Ok" /\ sfault = "none"
                       THEN Some(project) ELSE None]

\* a create_project that takes back what a failed instantiation has made
create_project_rolls_back(n, t, ts, fault) ==
    LET path == ProjectPath(n)
        calls == NumCalls(t, disk[n], n, templates)
        made == create_project_from_template(t, disk[n], n, templates, fault)
        project == ProjectNew(n, path, t, ts)
        sfault == SaveFaultAt(fault, calls)
        added == add_project(registry, project)
    IN IF PathExists(disk, path)
       THEN Untouched("AlreadyExists", "exists")
       ELSE IF made.result # "Ok"
       THEN Untouched(made.result, made.at)
       ELSE [registry |-> added, doc |-> SaveDoc(added, doc, sfault),
             disk |-> [disk EXCEPT ![n] = made.entry],
             result |-> SaveResult(sfault),
             at |-> IF sfault = "none" THEN "" ELSE "save",
             value |-> IF sfault = "none" THEN Some(project) ELSE None]

\* ProjectManager::create_project(name, template) at the clock reading ts,
\* with its filesystem call `fault` failing (0: none): the registry, the
\* document and the disk it leaves, and what it returns
create_project(n, t, ts, fault) ==
    LET path == ProjectPath(n)
        calls == NumCalls(t, disk[n], n, templates)
        made == create_project_from_template(t, disk[n], n, templates, fault)
        project == ProjectNew(n, path, t, ts)
        sfault == SaveFaultAt(fault, calls)
        added == add_project(registry, project)
    IN IF PathExists(disk, path)
       THEN Untouched("AlreadyExists", "exists")
       ELSE IF made.result # "Ok"
       THEN [registry |-> registry, doc |-> doc,
             disk |-> [disk EXCEPT ![n] = made.entry],
             result |-> made.result, at |-> made.at, value |-> None]
       ELSE [registry |-> added, doc |-> SaveDoc(added, doc, sfault),
             disk |-> [disk EXCEPT ![n] = made.entry],
             result |-> SaveResult(sfault),
             at |-> IF sfault = "none" THEN "" ELSE "save",
             value |-> IF sfault = "none" THEN Some(project) ELSE None]

CreateProject(n, t, ts, fault) ==
    /\ fault <= CreatePoints(n, t)
    /\ \E out \in {create_project(n, t, ts, fault)} :
        /\ registry' = out.registry
        /\ doc' = out.doc
        /\ disk' = out.disk
        /\ last' = Op("create_project", n, t, out.result, out.at, out.value)
        /\ UNCHANGED <<templates, binDir, unix, procs, custom_templates, hist>>

\* ProjectManager::get_project(name)
GetProject(n) ==
    /\ last' = Op("get_project", n, "",
                  IF get_project(registry, n) = None THEN "NotFound" ELSE "Ok",
                  "", get_project(registry, n))
    /\ UNCHANGED <<registry, doc, disk, templates, binDir, unix, procs, custom_templates, hist>>

\* whether remove_project(n) deletes a directory, and which
Deletes(n) ==
    /\ get_project(registry, n) # None
    /\ PathExists(disk, get_project(registry, n)[1].path)
DeletedDir(n) == EntryName(get_project(registry, n)[1].path)

\* the filesystem calls remove_project(n) gets to make: the removals of the
\* directory deletion, when there is a record and its directory exists, and
\* the two of the save, when there is a record
RemovePoints(n) ==
    (IF Deletes(n) THEN NumRemovals(disk[DeletedDir(n)]) ELSE 0)
    + (IF get_project(registry, n) # None THEN 2 ELSE 0)

\* a remove_project that drops and persists the record before it deletes
\* the directory
remove_project_registry_first(n, fault) ==
    LET dir == DeletedDir(n)
        calls == IF Deletes(n) THEN NumRemovals(disk[dir]) ELSE 0
        removed == remove_dir_all(disk[dir], dir, fault)
        sfault == SaveFaultAt(fault, calls)
        after == IF Deletes(n) THEN [disk EXCEPT ![dir] = removed.entry]
                 ELSE disk
        kept == remove_project(registry, n)
    IN IF Len(kept) = Len(registry)
       THEN [registry |-> kept, doc |-> doc, disk |-> disk,
             result |-> "NotFound", at |-> "lookup"]
       ELSE IF Deletes(n) /\ removed.result # "Ok"
       THEN [registry |-> kept, doc |-> DocOf(kept), disk |-> after,
             result |-> removed.result, at |-> "remove_dir_all"]
       ELSE [registry |-> kept, doc |-> SaveDoc(kept, doc, sfault),
             disk |-> after, result |-> SaveResult(sfault),
             at |-> IF sfault = "none" THEN "" ELSE "save"]

\* a remove_project that deletes projects_dir/name whether or not the
\* registry has a record of the name
remove_project_any_dir(n, fault) ==
    LET calls == IF disk[n].kind = "dir" THEN NumRemovals(disk[n]) ELSE 0
        removed == remove_dir_all(disk[n], n, fault)
        sfault == SaveFaultAt(fault, calls)
        after == IF disk[n].kind # "absent"
                 THEN [disk EXCEPT ![n] = removed.entry] ELSE disk
        kept == remove_project(registry, n)
    IN IF disk[n].kind # "absent" /\ removed.result # "Ok"
       THEN [registry |-> registry, doc |-> doc, disk |-> after,
             result |-> removed.result, at |-> "remove_dir_all"]
       ELSE IF Len(kept) = Len(registry)
       THEN [registry |-> kept, doc |-> doc, disk |-> after,
             result |-> "NotFound", at |-> "lookup"]
       ELSE [registry |-> kept, doc |-> SaveDoc(kept, doc, sfault),
             disk |-> after, result |-> SaveResult(sfault),
             at |-> IF sfault = "none" THEN "" ELSE "save"]

\* a remove_project that deletes the directory and leaves the record
remove_project_keeps_record(n, fault) ==
    LET dir == DeletedDir(n)
        removed == remove_dir_all(disk[dir], dir, fault)
        after == IF Deletes(n) THEN [disk EXCEPT ![dir] = removed.entry]
                 ELSE disk
    IN IF Deletes(n) /\ removed.result # "Ok"
       THEN [registry |-> registry, doc |-> doc, disk |-> after,
             result |-> removed.result, at |-> "remove_dir_all"]
       ELSE IF get_project(registry, n) = None
       THEN [registry |-> registry, doc |-> doc, disk |-> after,
             result |-> "NotFound", at |-> "lookup"]
       ELSE [registry |-> registry, doc |-> doc, disk |-> after,
             result |-> "Ok", at |-> ""]

\* ProjectManager::remove_project(name), with its filesystem call `fault`
\* failing (0: none): the registry, the document and the disk it leaves,
\* and what it returns
remove_project_dir(n, fault) ==
    LET dir == DeletedDir(n)
        calls == IF Deletes(n) THEN NumRemovals(disk[dir]) ELSE 0
        removed == remove_dir_all(disk[dir], dir, fault)
        sfault == SaveFaultAt(fault, calls)
        after == IF Deletes(n) THEN [disk EXCEPT ![dir] = removed.entry]
                 ELSE disk
        kept == remove_project(registry, n)
    IN IF Deletes(n) /\ removed.result # "Ok"
       THEN [registry |-> registry, doc |-> doc, disk |-> after,
             result |-> removed.result, at |-> "remove_dir_all"]
       ELSE IF Len(kept) = Len(registry)
       THEN [registry |-> kept, doc |-> doc, disk |-> after,
             result |-> "NotFound", at |-> "lookup"]
       ELSE [registry |-> kept, doc |-> SaveDoc(kept, doc, sfault),
             disk |-> after, result |-> SaveResult(sfault),
             at |-> IF sfault = "none" THEN "" ELSE "save"]

\* a remove_project that takes the entry of the name out of bin_dir as well
RemoveProjectUninstalls(n, fault) ==
    /\ fault <= RemovePoints(n)
    /\ \E out \in {remove_project_dir(n, fault)} :
        /\ registry' = out.registry
        /\ doc' = out.doc
        /\ disk' = out.disk
        /\ binDir' = IF out.result = "Ok"
                      THEN [binDir EXCEPT ![n] = [kind |-> "absent",
                                                  target |-> <<>>, data |-> <<>>]]
                      ELSE binDir
        /\ last' = Op("remove_project", n, "", out.result, out.at, None)
        /\ UNCHANGED <<templates, unix, procs, custom_templates, hist>>

RemoveProject(n, fault) ==
    /\ fault <= RemovePoints(n)
    /\ \E out \in {remove_project_dir(n, fault)} :
        /\ registry' = out.registry
        /\ doc' = out.doc
        /\ disk' = out.disk
        /\ last' = Op("remove_project", n, "", out.result, out.at, None)
        /\ UNCHANGED <<templates, binDir, unix, procs, custom_templates, hist>>

(***************************************************************************)
(* TemplateManager.                                                        *)
(***************************************************************************)
\* create_project_from_template(template, projects_dir/n, n), called on
\* its own
CreateFromTemplate(t, n, fault) ==
    LET made == create_project_from_template(t, disk[n], n, templates, fault)
    IN
    /\ fault <= (IF disk[n].kind = "file" THEN 0
                 ELSE IF ~IsKnownTemplate(t, templates) THEN 1
                 ELSE NumCalls(t, disk[n], n, templates))
    /\ disk' = [disk EXCEPT ![n] = made.entry]
    /\ last' = Op("create_project_from_template", n, t, made.result, made.at, None)
    /\ UNCHANGED <<registry, doc, templates, binDir, unix, procs, custom_templates, hist>>

\* Path::exists and Path::is_dir of the paths add_template is called with
TemplatePaths == {TemplateDir, <<"missing">>}
IsDir(path) == path = TemplateDir

\* add_template(name, path), on a manager that has just loaded the table
AddTemplate(name, path) ==
    /\ IF ~IsDir(path)
       THEN /\ last' = Op("add_template", name, "", "InvalidPath", "path", None)
            /\ UNCHANGED templates
       ELSE /\ templates' = {c \in templates : c.name # name}
                            \cup {CustomTemplate(name, path)}
            /\ last' = Op("add_template", name, "", "Ok", "", None)
    /\ UNCHANGED <<registry, doc, disk, binDir, unix, procs, custom_templates, hist>>

\* remove_template(name), on a manager that has just loaded the table
RemoveTemplate(name) ==
    /\ IF name \notin TemplateNames(templates)
       THEN /\ last' = Op("remove_template", name, "", "NotFound", "lookup", None)
            /\ UNCHANGED templates
       ELSE /\ templates' = {c \in templates : c.name # name}
            /\ last' = Op("remove_template", name, "", "Ok", "", None)
    /\ UNCHANGED <<registry, doc, disk, binDir, unix, procs, custom_templates, hist>>

(***************************************************************************)
(* The live TemplateManager: custom_templates is its table, `templates`    *)
(* the document that load_custom_templates reads and save_custom_templates *)
(* writes (no document and an empty one read the same).                    *)
(***************************************************************************)
\* the paths add_template is called with on the live manager: two
\* directories (holding the same), a path with nothing at it, a regular file
LivePaths == {TemplateDir, <<"other-template">>, <<"missing">>, <<"a-file">>}
LivePathExists(path) == path # <<"missing">>
LivePathIsDir(path) == path \in {TemplateDir, <<"other-template">>}

\* save_custom_templates fails before it writes, or not at all
TemplateSaveFaults == {"none", "open"}

load_custom_templates(d) == d

\* an add_template that takes any path
add_template_unchecked(table, d, name, path, fault) ==
    LET added == {c \in table : c.name # name} \cup {CustomTemplate(name, path)}
    IN IF fault # "none"
       THEN [result |-> "IoError", at |-> "save", table |-> added, doc |-> d]
       ELSE [result |-> "Ok", at |-> "", table |-> added, doc |-> added]

\* add_template: HashMap::insert under the name, then the save
add_template(table, d, name, path, fault) ==
    LET added == {c \in table : c.name # name} \cup {CustomTemplate(name, path)}
    IN IF ~LivePathExists(path) \/ ~LivePathIsDir(path)
       THEN [result |-> "InvalidPath", at |-> "path", table |-> table, doc |-> d]
       ELSE IF fault # "none"
       THEN [result |-> "IoError", at |-> "save", table |-> added, doc |-> d]
       ELSE [result |-> "Ok", at |-> "", table |-> added, doc |-> added]

\* a remove_template that does not save
remove_template_unsaved(table, d, name, fault) ==
    LET kept == {c \in table : c.name # name}
    IN IF name \notin TemplateNames(table)
       THEN [result |-> "NotFound", at |-> "lookup", table |-> table, doc |-> d]
       ELSE [result |-> "Ok", at |-> "", table |-> kept, doc |-> d]

\* remove_template: HashMap::remove, then the save
remove_template(table, d, name, fault) ==
    LET kept == {c \in table : c.name # name}
    IN IF name \notin TemplateNames(table)
       THEN [result |-> "NotFound", at |-> "lookup", table |-> table, doc |-> d]
       ELSE IF fault # "none"
       THEN [result |-> "IoError", at |-> "save", table |-> kept, doc |-> d]
       ELSE [result |-> "Ok", at |-> "", table |-> kept, doc |-> kept]

\* the template names of the model in the order of sort()
SortedTemplateNames ==
    <<"bash", "bun", "go", "mytpl", "node", "python", "rust", "zsh">>

\* list_templates: the seven built-in identifiers, then the keys of the
\* table pushed after them, and the whole sorted
RECURSIVE SortedListing(_, _)
SortedListing(order, table) ==
    IF order = <<>> THEN <<>>
    ELSE (IF Head(order) \in BuiltIn THEN <<Head(order)>> ELSE <<>>)
         \o (IF Head(order) \in TemplateNames(table) THEN <<Head(order)>> ELSE <<>>)
         \o SortedListing(Tail(order), table)

list_templates(table) == SortedListing(SortedTemplateNames, table)

\* TemplateManager::new
TemplateManagerNew ==
    /\ custom_templates' = load_custom_templates(templates)
    /\ last' = Op("template_manager_new", "", "", "Ok", "", None)
    /\ UNCHANGED <<registry, doc, disk, templates, binDir, unix, procs, hist>>

TemplateAdd(name, path, fault) ==
    /\ fault # "none" => LivePathIsDir(path)
    /\ \E out \in {add_template(custom_templates, templates, name, path, fault)} :
        /\ custom_templates' = out.table
        /\ templates' = out.doc
        /\ last' = Op("add_template", name, path, out.result, out.at, None)
    /\ UNCHANGED <<registry, doc, disk, binDir, unix, procs, hist>>

TemplateRemove(name, fault) ==
    /\ fault # "none" => name \in TemplateNames(custom_templates)
    /\ \E out \in {remove_template(custom_templates, templates, name, fault)} :
        /\ custom_templates' = out.table
        /\ templates' = out.doc
        /\ last' = Op("remove_template", name, "", out.result, out.at, None)
    /\ UNCHANGED <<registry, doc, disk, binDir, unix, procs, hist>>

TemplateList ==
    /\ last' = Op("list_templates", "", "", "Ok", "",
                  Some(list_templates(custom_templates)))
    /\ UNCHANGED <<registry, doc, disk, templates, binDir, unix, procs,
                   custom_templates, hist>>

(***************************************************************************)
(* PathManager: the artifact of a project and its entry in bin_dir.  An    *)
(* entry of bin_dir is absent, a regular file, or a link to a path.        *)
(***************************************************************************)
NoBin == [kind |-> "absent", target |-> <<>>, data |-> <<>>]
BinFile(data) == [kind |-> "file", target |-> <<>>, data |-> data]
BinLink(target) == [kind |-> "link", target |-> target, data |-> <<>>]

\* Path::exists of bin_dir/name: a link is followed to its target
BinExists(e, d) ==
    \/ e.kind = "file"
    \/ e.kind = "link" /\ PathExists(d, e.target)

\* the file a path under projects_dir leads to
FileData(d, path) == NodeAt(d[EntryName(path)].files, RelPath(path)).data

Found(path) == [result |-> "Ok", path |-> path]
NotFound(result) == [result |-> result, path |-> <<>>]

\* a resolution that prefers the debug output
find_project_binary_debug_first(p, d) ==
    LET only(rel) == IF PathExists(d, p.path \o rel) THEN Found(p.path \o rel)
                     ELSE NotFound("NoBinary")
    IN CASE p.template = "rust" ->
              IF PathExists(d, p.path \o <<"target", "debug", p.name>>)
              THEN Found(p.path \o <<"target", "debug", p.name>>)
              ELSE only(<<"target", "release", p.name>>)
         [] p.template = "go" -> only(<<p.name>>)
         [] p.template = "python" -> only(<<"main.py">>)
         [] p.template = "node" -> only(<<"index.js">>)
         [] p.template = "bash" -> only(<<"main.sh">>)
         [] p.template = "zsh" -> only(<<"main.zsh">>)
         [] p.template = "bun" -> only(<<"bun.js">>)
         [] OTHER -> NotFound("UnknownTemplate")

\* a resolution that looks for a release output under any other template
find_project_binary_any_template(p, d) ==
    LET only(rel) == IF PathExists(d, p.path \o rel) THEN Found(p.path \o rel)
                     ELSE NotFound("NoBinary")
    IN CASE p.template = "rust" ->
              IF PathExists(d, p.path \o <<"target", "release", p.name>>)
              THEN Found(p.path \o <<"target", "release", p.name>>)
              ELSE only(<<"target", "debug", p.name>>)
         [] p.template = "go" -> only(<<p.name>>)
         [] p.template = "python" -> only(<<"main.py">>)
         [] p.template = "node" -> only(<<"index.js">>)
         [] p.template = "bash" -> only(<<"main.sh">>)
         [] p.template = "zsh" -> only(<<"main.zsh">>)
         [] p.template = "bun" -> only(<<"bun.js">>)
         [] OTHER -> only(<<"target", "release", p.name>>)

\* find_project_binary: the one path of the template that is tried, or the
\* release output and then the debug output for a Rust project
find_project_binary(p, d) ==
    LET only(rel) == IF PathExists(d, p.path \o rel) THEN Found(p.path \o rel)
                     ELSE NotFound("NoBinary")
    IN CASE p.template = "rust" ->
              IF PathExists(d, p.path \o <<"target", "release", p.name>>)
              THEN Found(p.path \o <<"target", "release", p.name>>)
              ELSE only(<<"target", "debug", p.name>>)
         [] p.template = "go" -> only(<<p.name>>)
         [] p.template = "python" -> only(<<"main.py">>)
         [] p.template = "node" -> only(<<"index.js">>)
         [] p.template = "bash" -> only(<<"main.sh">>)
         [] p.template = "zsh" -> only(<<"main.zsh">>)
         [] p.template = "bun" -> only(<<"bun.js">>)
         [] OTHER -> NotFound("UnknownTemplate")

\* an install_project that removes the entry before it resolves the artifact
install_project_clears_first(p, bin, d, isUnix) ==
    LET found == find_project_binary(p, d)
        cleared == IF BinExists(bin[p.name], d) THEN NoBin ELSE bin[p.name]
    IN IF found.result # "Ok"
       THEN [result |-> found.result, at |-> "find_project_binary",
             value |-> None, bin |-> [bin EXCEPT ![p.name] = cleared]]
       ELSE IF ~isUnix
       THEN [result |-> "Ok", at |-> "", value |-> Some(found.path),
             bin |-> [bin EXCEPT ![p.name] = BinFile(FileData(d, found.path))]]
       ELSE IF cleared.kind # "absent"
       THEN [result |-> "IoError", at |-> "symlink", value |-> None,
             bin |-> bin]
       ELSE [result |-> "Ok", at |-> "", value |-> Some(found.path),
             bin |-> [bin EXCEPT ![p.name] = BinLink(found.path)]]

\* install_project: the artifact is resolved, the entry is removed when
\* Path::exists finds it, and a link is made (cfg(unix)) or the artifact is
\* copied (otherwise).  symlink fails on an entry that is still there.
install_project(p, bin, d, isUnix) ==
    LET found == find_project_binary(p, d)
        cleared == IF BinExists(bin[p.name], d) THEN NoBin ELSE bin[p.name]
    IN IF found.result # "Ok"
       THEN [result |-> found.result, at |-> "find_project_binary",
             value |-> None, bin |-> bin]
       ELSE IF ~isUnix
       THEN [result |-> "Ok", at |-> "", value |-> Some(found.path),
             bin |-> [bin EXCEPT ![p.name] = BinFile(FileData(d, found.path))]]
       ELSE IF cleared.kind # "absent"
       THEN [result |-> "IoError", at |-> "symlink", value |-> None,
             bin |-> bin]
       ELSE [result |-> "Ok", at |-> "", value |-> Some(found.path),
             bin |-> [bin EXCEPT ![p.name] = BinLink(found.path)]]

\* uninstall_project: the entry is removed when Path::exists finds it
uninstall_project(name, bin, d) ==
    IF BinExists(bin[name], d) THEN [bin EXCEPT ![name] = NoBin] ELSE bin

\* the names of bin_dir in the order of sort()
SortedNames == <<"bar", "foo">>

\* list_installed: the names of the entries whose file_type, which follows
\* no link, is a file or a link, sorted
list_installed(bin) ==
    SelectSeq(SortedNames, LAMBDA n : bin[n].kind \in {"file", "link"})

\* binary_exists: whether find_project_binary returns Ok
binary_exists(p, d) == find_project_binary(p, d).result = "Ok"

\* find_project_binary on the record the registry has of n
FindProjectBinary(n) ==
    /\ get_project(registry, n) # None
    /\ \E found \in {find_project_binary(get_project(registry, n)[1], disk)} :
        last' = Op("find_project_binary", n, get_project(registry, n)[1].template,
                   found.result, "",
                   IF found.result = "Ok" THEN Some(found.path) ELSE None)
    /\ UNCHANGED <<registry, doc, disk, templates, binDir, unix, procs, custom_templates, hist>>

\* binary_exists on the record the registry has of n
BinaryExists(n) ==
    /\ get_project(registry, n) # None
    /\ last' = Op("binary_exists", n, get_project(registry, n)[1].template,
                  IF binary_exists(get_project(registry, n)[1], disk)
                  THEN "true" ELSE "false", "", None)
    /\ UNCHANGED <<registry, doc, disk, templates, binDir, unix, procs, custom_templates, hist>>

\* install_project on the record the registry has of n
InstallProject(n) ==
    /\ get_project(registry, n) # None
    /\ \E out \in {install_project(get_project(registry, n)[1], binDir, disk, unix)} :
        /\ binDir' = out.bin
        /\ last' = Op("install_project", n, get_project(registry, n)[1].template,
                      out.result, out.at, out.value)
    /\ UNCHANGED <<registry, doc, disk, templates, unix, procs, custom_templates, hist>>

UninstallProject(n) ==
    /\ binDir' = uninstall_project(n, binDir, disk)
    /\ last' = Op("uninstall_project", n, "", "Ok", "",
                  IF BinExists(binDir[n], disk) THEN Some("removed") ELSE None)
    /\ UNCHANGED <<registry, doc, disk, templates, unix, procs, custom_templates, hist>>

\* list_installed (bin_dir is there)
ListInstalled ==
    /\ last' = Op("list_installed", "", "", "Ok", "", Some(list_installed(binDir)))
    /\ UNCHANGED <<registry, doc, disk, templates, binDir, unix, procs,
                   custom_templates, hist>>

\* cargo build, with --release or without, in a Rust project: the output
\* of the profile is there afterwards.  Not a call of the program: `last`
\* keeps the last call.
Profiles == {"release", "debug"}

CargoBuild(n, profile) ==
    /\ disk[n].kind = "dir"
    /\ <<"Cargo.toml">> \in NodePaths(disk[n].files)
    /\ disk' = [disk EXCEPT ![n] = DirWith(
                   WriteFile(CreateDirAll(CreateDirAll(disk[n].files, <<"target">>),
                                          <<"target", profile>>),
                             <<"target", profile, n>>, <<"ELF ", profile>>))]
    /\ UNCHANGED <<registry, doc, templates, binDir, unix, procs, custom_templates, hist, last>>

\* the output of a profile is deleted, by hand or by a clean of the profile
RemoveArtifact(n, profile) ==
    /\ PathExists(disk, ProjectPath(n) \o <<"target", profile, n>>)
    /\ disk' = [disk EXCEPT ![n] = DirWith(
                   {e \in disk[n].files : e.path # <<"target", profile, n>>})]
    /\ UNCHANGED <<registry, doc, templates, binDir, unix, procs, custom_templates, hist, last>>

(***************************************************************************)
(* Spec: the project manager.  Projects are created, looked up and         *)
(* removed on a projects_dir that may hold entries of its own before the   *)
(* first call; no custom template is registered.                           *)
(***************************************************************************)
\* the template identifiers the calls are made with: a built-in one and a
\* name that is a custom template while registered and unknown otherwise
TemplateInputs == {"rust", "mytpl"}
CustomNames == {"mytpl"}

\* what projects_dir/name can hold before the first call
Foreign == DirWith({FileNode(<<"notes.txt">>, <<"notes">>)})
InitialEntries == {Absent, RegularFile, Foreign}

Init ==
    /\ registry = <<>>
    /\ doc = DocAbsent
    /\ disk \in [Names -> InitialEntries]
    /\ templates = {}
    /\ binDir = [n \in Names |-> NoBin]
    /\ unix = TRUE
    /\ custom_templates = {}
    /\ procs = IdleProcs
    /\ hist = HistInit
    /\ last = NoOp

CreateProjectStep ==
    \E n \in Names, t \in TemplateInputs :
        \E fault \in 0..CreatePoints(n, t) :
            \E ts \in (IF ReadsClock(n, t, fault) THEN Clock ELSE {1}) :
                CreateProject(n, t, ts, fault)

RemoveProjectStep ==
    \E n \in Names : \E fault \in 0..RemovePoints(n) : RemoveProject(n, fault)

Next ==
    \/ ManagerNew
    \/ CreateProjectStep
    \/ \E n \in Names : GetProject(n)
    \/ RemoveProjectStep

Spec == Init /\ [][Next]_vars

(***************************************************************************)
(* SpecRegistry: the calls of ProjectRegistry itself, on a registry that   *)
(* starts empty with no document on disk.                                  *)
(***************************************************************************)
\* a load that leaves an empty document behind where it found none
RegistryLoadCreates ==
    /\ registry' = IF LoadResult(doc) = "Ok" THEN LoadValue(doc) ELSE registry
    /\ doc' = IF doc.state = "absent" THEN DocOf(<<>>) ELSE doc
    /\ last' = Op("load", "", "", LoadResult(doc),
                  IF LoadResult(doc) = "Ok" THEN "" ELSE "parse", None)
    /\ hist' = HistLoad(hist, last)
    /\ UNCHANGED <<disk, templates, binDir, unix, procs, custom_templates>>

\* ProjectRegistry::load: the registry in memory becomes the one read
RegistryLoad ==
    /\ registry' = IF LoadResult(doc) = "Ok" THEN LoadValue(doc) ELSE registry
    /\ last' = Op("load", "", "", LoadResult(doc),
                  IF LoadResult(doc) = "Ok" THEN "" ELSE "parse", None)
    /\ hist' = HistLoad(hist, last)
    /\ UNCHANGED <<doc, disk, templates, binDir, unix, procs, custom_templates>>

\* ProjectRegistry::save
RegistrySave(fault) ==
    /\ doc' = SaveDoc(registry, doc, fault)
    /\ last' = Op("save", "", "", SaveResult(fault),
                  IF fault = "none" THEN "" ELSE "write", None)
    /\ UNCHANGED <<registry, disk, templates, binDir, unix, procs, custom_templates, hist>>

\* an add_project that saves what it has added
RegistryAddSaves(project) ==
    /\ registry' = add_project(registry, project)
    /\ doc' = DocOf(registry')
    /\ hist' = HistAdd(hist, registry, project)
    /\ last' = Op("add_project", project.name, "", "Ok", "", Some(project))
    /\ UNCHANGED <<disk, templates, binDir, unix, procs, custom_templates>>

\* ProjectRegistry::add_project(project)
RegistryAdd(project) ==
    /\ registry' = add_project(registry, project)
    /\ hist' = HistAdd(hist, registry, project)
    /\ last' = Op("add_project", project.name, "", "Ok", "", Some(project))
    /\ UNCHANGED <<doc, disk, templates, binDir, unix, procs, custom_templates>>

\* ProjectRegistry::remove_project(name): whether a record was removed
RegistryRemove(n) ==
    /\ registry' = remove_project(registry, n)
    /\ last' = Op("remove_project", n, "",
                  IF Len(registry') # Len(registry) THEN "true" ELSE "false",
                  "", None)
    /\ UNCHANGED <<doc, disk, templates, binDir, unix, procs, custom_templates, hist>>

\* ProjectRegistry::get_project(name)
RegistryGet(n) ==
    /\ last' = Op("get_project", n, "",
                  IF get_project(registry, n) = None THEN "None" ELSE "Some",
                  "", get_project(registry, n))
    /\ UNCHANGED <<registry, doc, disk, templates, binDir, unix, procs, custom_templates, hist>>

\* ProjectRegistry::list_projects
RegistryList ==
    /\ last' = Op("list_projects", "", "", "Ok", "",
                  Some(list_projects(registry)))
    /\ UNCHANGED <<registry, doc, disk, templates, binDir, unix, procs, custom_templates, hist>>

\* the records add_project is called with: any creation time, built or not
ProjectInputs ==
    {[ProjectNew(n, ProjectPath(n), "rust", t) EXCEPT !.last_built = b] :
        n \in Names, t \in Clock, b \in {None, Some(FormatUtc(1))}}

InitRegistry ==
    /\ registry = <<>>
    /\ doc = DocAbsent
    /\ disk = [n \in Names |-> Absent]
    /\ templates = {}
    /\ binDir = [n \in Names |-> NoBin]
    /\ unix = TRUE
    /\ custom_templates = {}
    /\ procs = IdleProcs
    /\ hist = HistInit
    /\ last = NoOp

NextRegistry ==
    \/ RegistryLoad
    \/ \E fault \in SaveFaults : RegistrySave(fault)
    \/ \E project \in ProjectInputs : RegistryAdd(project)
    \/ \E n \in Names : RegistryRemove(n)
    \/ \E n \in Names : RegistryGet(n)
    \/ RegistryList

SpecRegistry == InitRegistry /\ [][NextRegistry]_vars

(***************************************************************************)
(* SpecRace: two processes, each running load, one add_project or          *)
(* remove_project, and save on a registry of its own against the one       *)
(* document, with nothing to keep them apart.  A process records what it   *)
(* loaded (base), whether the other had saved by then (after), and the     *)
(* how-manieth save its own was (saved).                                   *)
(***************************************************************************)
\* the calls a process makes between its load and its save
RaceUpdates ==
    {[kind |-> "add", name |-> n,
      project |-> Some(ProjectNew(n, ProjectPath(n), "rust", 1))] : n \in Names}
        \cup {[kind |-> "remove", name |-> n, project |-> None] : n \in Names}

apply_update(reg, u) ==
    IF u.kind = "add" THEN add_project(reg, u.project[1])
    ELSE remove_project(reg, u.name)

\* ProjectRegistry::load in process p
ProcLoad(p) ==
    /\ procs[p].pc = "idle"
    /\ LoadResult(doc) = "Ok"
    /\ procs' = [procs EXCEPT ![p] =
                    [@ EXCEPT !.pc = "loaded", !.base = LoadValue(doc),
                              !.registry = LoadValue(doc),
                              !.after = \E q \in Procs : procs[q].saved > 0]]
    /\ last' = Op("load", p, "", "Ok", "", None)
    /\ UNCHANGED <<registry, doc, disk, templates, binDir, unix,
                   custom_templates, hist>>

\* add_project or remove_project in process p
ProcMutate(p, u) ==
    /\ procs[p].pc = "loaded"
    /\ procs' = [procs EXCEPT ![p] =
                    [@ EXCEPT !.pc = "mutated",
                              !.registry = apply_update(@, u),
                              !.update = Some(u)]]
    /\ last' = Op(IF u.kind = "add" THEN "add_project" ELSE "remove_project",
                  p, u.name, "Ok", "", None)
    /\ UNCHANGED <<registry, doc, disk, templates, binDir, unix,
                   custom_templates, hist>>

\* a save that reads the document again and applies its own call to it
ProcSaveMerging(p) ==
    /\ procs[p].pc = "mutated"
    /\ doc' = DocOf(apply_update(LoadValue(doc), procs[p].update[1]))
    /\ procs' = [procs EXCEPT ![p] =
                    [@ EXCEPT !.pc = "done", !.saved =
                        1 + Cardinality({q \in Procs : procs[q].saved > 0})]]
    /\ last' = Op("save", p, "", "Ok", "", None)
    /\ UNCHANGED <<registry, disk, templates, binDir, unix,
                   custom_templates, hist>>

\* ProjectRegistry::save in process p: the whole registry of the process
ProcSave(p) ==
    /\ procs[p].pc = "mutated"
    /\ doc' = SaveDoc(procs[p].registry, doc, "none")
    /\ procs' = [procs EXCEPT ![p] =
                    [@ EXCEPT !.pc = "done", !.saved =
                        1 + Cardinality({q \in Procs : procs[q].saved > 0})]]
    /\ last' = Op("save", p, "", "Ok", "", None)
    /\ UNCHANGED <<registry, disk, templates, binDir, unix,
                   custom_templates, hist>>

\* the two processes find no document, or one with a record or two
InitRace ==
    /\ registry = <<>>
    /\ doc \in {DocAbsent,
                 DocOf(<<ProjectNew("bar", ProjectPath("bar"), "bash", 1)>>),
                 DocOf(<<ProjectNew("foo", ProjectPath("foo"), "bash", 1),
                         ProjectNew("bar", ProjectPath("bar"), "bash", 1)>>)}
    /\ disk = [n \in Names |-> Absent]
    /\ templates = {}
    /\ binDir = [n \in Names |-> NoBin]
    /\ unix = TRUE
    /\ custom_templates = {}
    /\ procs = IdleProcs
    /\ hist = HistInit
    /\ last = NoOp

NextRace ==
    \/ \E p \in Procs : ProcLoad(p)
    \/ \E p \in Procs, u \in RaceUpdates : ProcMutate(p, u)
    \/ \E p \in Procs : ProcSave(p)

SpecRace == InitRace /\ [][NextRace]_vars

(***************************************************************************)
(* SpecTemplate: the template manager.  Templates are instantiated         *)
(* straight into the entries of projects_dir, whatever they hold, while    *)
(* custom templates are registered and removed.                            *)
(***************************************************************************)
\* the identifiers instantiated: two built-in ones, a name that is a
\* custom template while registered, and one that never is
DirectInputs == {"rust", "bash", "mytpl", "nope"}

\* the entry of projects_dir they are instantiated into
DirectNames == {"foo"}

CreateFromTemplateStep ==
    \E n \in DirectNames, t \in DirectInputs :
        \E fault \in 0..(1 + Len(create_rust_project(n)) + Len(create_from_custom_template({}, n))) :
            CreateFromTemplate(t, n, fault)

NextTemplate ==
    \/ CreateFromTemplateStep
    \/ \E name \in CustomNames, path \in TemplatePaths : AddTemplate(name, path)
    \/ \E name \in CustomNames : RemoveTemplate(name)

SpecTemplate == Init /\ [][NextTemplate]_vars

(***************************************************************************)
(* SpecBuiltIn: the project manager over the seven built-in templates, on  *)
(* an empty projects_dir and with no call failing.                         *)
(***************************************************************************)
NextBuiltIn ==
    \/ ManagerNew
    \/ \E n \in Names, t \in BuiltIn, ts \in Clock : CreateProject(n, t, ts, 0)
    \/ \E n \in Names : GetProject(n)
    \/ \E n \in Names : RemoveProject(n, 0)

SpecBuiltIn == InitRegistry /\ [][NextBuiltIn]_vars

\* the files each create_*_project writes
TemplateFiles(t) ==
    CASE t = "rust" -> {<<"Cargo.toml">>, <<"src", "main.rs">>, <<"README.md">>}
      [] t = "python" -> {<<"main.py">>, <<"requirements.txt">>, <<"README.md">>}
      [] t = "node" -> {<<"package.json">>, <<"index.js">>, <<"README.md">>}
      [] t = "go" -> {<<"go.mod">>, <<"main.go">>, <<"README.md">>}
      [] t = "bash" -> {<<"main.sh">>, <<"README.md">>}
      [] t = "zsh" -> {<<"main.zsh">>, <<"README.md">>}
      [] t = "bun" -> {<<"bun.js">>, <<"README.md">>}

(***************************************************************************)
(* SpecInstall: the installer.  Projects are created, Rust projects are    *)
(* built and their outputs deleted, and projects are installed into and    *)
(* uninstalled from a bin_dir that may hold files of its own, on either    *)
(* kind of build.                                                          *)
(***************************************************************************)
InstallTemplates == {"rust", "bash"}
OldFile == BinFile(<<"old">>)

InitInstall ==
    /\ registry = <<>>
    /\ doc = DocAbsent
    /\ disk = [n \in Names |-> Absent]
    /\ templates = {}
    /\ binDir \in [Names -> {NoBin, OldFile}]
    /\ unix \in BOOLEAN
    /\ custom_templates = {}
    /\ procs = IdleProcs
    /\ hist = HistInit
    /\ last = NoOp

NextInstall ==
    \/ \E n \in Names, t \in InstallTemplates : CreateProject(n, t, 1, 0)
    \/ \E n \in Names, profile \in Profiles : CargoBuild(n, profile)
    \/ \E n \in Names, profile \in Profiles : RemoveArtifact(n, profile)
    \/ \E n \in Names : InstallProject(n)
    \/ \E n \in Names : UninstallProject(n)

SpecInstall == InitInstall /\ [][NextInstall]_vars

(***************************************************************************)
(* SpecSteps: install_project taken a step at a time.  The first step      *)
(* resolves the artifact and removes the entry that Path::exists finds;    *)
(* the second makes the link or the copy, or fails; the process can stop   *)
(* between the two.  One install is in progress at a time, and outputs are *)
(* built and deleted between installs.                                     *)
(***************************************************************************)
\* install_project up to and including fs::remove_file
InstallBegin(p, n) ==
    /\ \A q \in Procs : procs[q].pc = "idle"
    /\ get_project(registry, n) # None
    /\ \E found \in {find_project_binary(get_project(registry, n)[1], disk)} :
        IF found.result # "Ok"
        THEN /\ last' = Op("install_project", n, "", found.result,
                           "find_project_binary", None)
             /\ UNCHANGED <<binDir, procs>>
        ELSE /\ binDir' = IF BinExists(binDir[n], disk)
                          THEN [binDir EXCEPT ![n] = NoBin] ELSE binDir
             /\ procs' = [procs EXCEPT ![p] =
                             [@ EXCEPT !.pc = "creating", !.name = n,
                                       !.path = Some(found.path)]]
             /\ last' = Op("install_project", n, "", "InProgress",
                           "remove_file", None)
    /\ UNCHANGED <<registry, doc, disk, templates, unix, custom_templates, hist>>

\* the symlink (cfg(unix)) or the fs::copy (otherwise); `fails` is an I/O
\* failure of the call, and symlink fails on an entry that is there
InstallCreate(p, fails) ==
    LET n == procs[p].name
        path == procs[p].path[1]
        failed == fails \/ (unix /\ binDir[n].kind # "absent")
    IN /\ procs[p].pc = "creating"
       /\ binDir' = IF failed THEN binDir
                     ELSE [binDir EXCEPT ![n] =
                              IF unix THEN BinLink(path)
                              ELSE BinFile(FileData(disk, path))]
       /\ procs' = [procs EXCEPT ![p] = IdleProcs[p]]
       /\ last' = Op("install_project", n, "",
                     IF failed THEN "IoError" ELSE "Ok",
                     IF ~failed THEN "" ELSE IF unix THEN "symlink" ELSE "copy",
                     IF failed THEN None ELSE Some(path))
       /\ UNCHANGED <<registry, doc, disk, templates, unix, custom_templates, hist>>

\* the process stops between the two steps
InstallCrash(p) ==
    /\ procs[p].pc = "creating"
    /\ procs' = [procs EXCEPT ![p] = IdleProcs[p]]
    /\ last' = Op("install_project", procs[p].name, "", "Crashed", "crash", None)
    /\ UNCHANGED <<registry, doc, disk, templates, binDir, unix,
                   custom_templates, hist>>

NextSteps ==
    \/ \E n \in Names : CreateProject(n, "rust", 1, 0)
    \/ \E n \in Names, profile \in Profiles :
           (\A q \in Procs : procs[q].pc = "idle") /\ CargoBuild(n, profile)
    \/ \E n \in Names, profile \in Profiles :
           (\A q \in Procs : procs[q].pc = "idle") /\ RemoveArtifact(n, profile)
    \/ \E p \in Procs, n \in Names : InstallBegin(p, n)
    \/ \E p \in Procs, fails \in BOOLEAN : InstallCreate(p, fails)
    \/ \E p \in Procs : InstallCrash(p)

SpecSteps == InitInstall /\ [][NextSteps]_vars

(***************************************************************************)
(* SpecScripts: projects of the seven built-in templates are created, the  *)
(* compiled ones are built, and artifacts are resolved and tested.  A      *)
(* project name is any string the command line is given: one of the two    *)
(* here is the name of a file that the Go template writes.                 *)
(***************************************************************************)
\* go build -o <name> in a Go project: the output is <project>/<name>
GoBuild(n) ==
    /\ disk[n].kind = "dir"
    /\ <<"go.mod">> \in NodePaths(disk[n].files)
    /\ disk' = [disk EXCEPT ![n] =
                   DirWith(WriteFile(disk[n].files, <<n>>, <<"ELF ", "go">>))]
    /\ UNCHANGED <<registry, doc, templates, binDir, unix, procs,
                   custom_templates, hist, last>>

InitScripts ==
    /\ registry = <<>>
    /\ doc = DocAbsent
    /\ disk = [n \in {"foo", "main.go"} |-> Absent]
    /\ templates = {}
    /\ binDir = [n \in {"foo", "main.go"} |-> NoBin]
    /\ unix = TRUE
    /\ custom_templates = {}
    /\ procs = IdleProcs
    /\ hist = HistInit
    /\ last = NoOp

NextScripts ==
    \/ \E n \in {"foo", "main.go"}, t \in BuiltIn : CreateProject(n, t, 1, 0)
    \/ \E n \in {"foo", "main.go"}, profile \in Profiles : CargoBuild(n, profile)
    \/ \E n \in {"foo", "main.go"} : GoBuild(n)
    \/ \E n \in {"foo", "main.go"} : FindProjectBinary(n)
    \/ \E n \in {"foo", "main.go"} : BinaryExists(n)

SpecScripts == InitScripts /\ [][NextScripts]_vars

(***************************************************************************)
(* SpecStale: the project manager on a projects_dir whose project          *)
(* directories can be deleted from outside, with the calls of              *)
(* remove_project failing in every place they can.                         *)
(***************************************************************************)
\* a project_exists that looks for the directory
ProjectExistsOnDisk(n) ==
    /\ last' = Op("project_exists", n, "",
                  IF disk[n].kind = "dir" THEN "true" ELSE "false", "", None)
    /\ UNCHANGED <<registry, doc, disk, templates, binDir, unix, procs,
                   custom_templates, hist>>

\* ProjectManager::project_exists(name)
ProjectExists(n) ==
    /\ last' = Op("project_exists", n, "",
                  IF get_project(registry, n) # None THEN "true" ELSE "false",
                  "", None)
    /\ UNCHANGED <<registry, doc, disk, templates, binDir, unix, procs,
                   custom_templates, hist>>

\* rm -r of a project directory, by something other than the program
DeleteOutside(n) ==
    /\ disk[n].kind = "dir"
    /\ disk' = [disk EXCEPT ![n] = Absent]
    /\ UNCHANGED <<registry, doc, templates, binDir, unix, procs,
                   custom_templates, hist, last>>

NextStale ==
    \/ ManagerNew
    \/ \E n \in Names, t \in TemplateInputs : CreateProject(n, t, 1, 0)
    \/ \E n \in Names : DeleteOutside(n)
    \/ RemoveProjectStep
    \/ \E n \in Names : GetProject(n)
    \/ \E n \in Names : ProjectExists(n)

SpecStale == InitRegistry /\ [][NextStale]_vars

(***************************************************************************)
(* SpecLifecycle: projects are created from the Rust template and, once   *)
(* it is registered, from a custom template, built, installed, uninstalled *)
(* and removed, and created again under the same names, on either kind of  *)
(* build with a bin_dir that starts empty; the installed names are listed. *)
(***************************************************************************)
InitLifecycle ==
    /\ registry = <<>>
    /\ doc = DocAbsent
    /\ disk = [n \in Names |-> Absent]
    /\ templates = {}
    /\ binDir = [n \in Names |-> NoBin]
    /\ unix \in BOOLEAN
    /\ custom_templates = {}
    /\ procs = IdleProcs
    /\ hist = HistInit
    /\ last = NoOp

NextLifecycle ==
    \/ AddTemplate("mytpl", TemplateDir)
    \/ \E n \in Names, t \in TemplateInputs : CreateProject(n, t, 1, 0)
    \/ \E n \in Names, profile \in Profiles : CargoBuild(n, profile)
    \/ \E n \in Names, profile \in Profiles : RemoveArtifact(n, profile)
    \/ \E n \in Names : InstallProject(n)
    \/ \E n \in Names : UninstallProject(n)
    \/ \E n \in Names : RemoveProject(n, 0)
    \/ ListInstalled

SpecLifecycle == InitLifecycle /\ [][NextLifecycle]_vars

(***************************************************************************)
(* SpecResolve: the artifact resolver.  Projects are created from the Rust *)
(* template and from a custom template that is registered and removed,    *)
(* the Rust template is instantiated into directories that are there,     *)
(* outputs are built and deleted, and artifacts are resolved, tested and   *)
(* installed.                                                              *)
(***************************************************************************)
NextResolve ==
    \/ \E name \in CustomNames, path \in TemplatePaths : AddTemplate(name, path)
    \/ \E name \in CustomNames : RemoveTemplate(name)
    \/ \E n \in Names, t \in TemplateInputs : CreateProject(n, t, 1, 0)
    \/ \E n \in Names : CreateFromTemplate("rust", n, 0)
    \/ \E n \in Names, profile \in Profiles : CargoBuild(n, profile)
    \/ \E n \in Names, profile \in Profiles : RemoveArtifact(n, profile)
    \/ \E n \in Names : FindProjectBinary(n)
    \/ \E n \in Names : BinaryExists(n)
    \/ \E n \in Names : InstallProject(n)

SpecResolve == InitRegistry /\ [][NextResolve]_vars

(***************************************************************************)
(* SpecCustom: the live template manager.  Templates are registered under  *)
(* a name of their own and under a built-in identifier, removed and        *)
(* listed, a manager is made anew from the document, and projects are      *)
(* created from what the document registers.                               *)
(***************************************************************************)
LiveNames == {"mytpl", "rust"}

NextCustom ==
    \/ TemplateManagerNew
    \/ \E name \in LiveNames, path \in LivePaths, fault \in TemplateSaveFaults :
           TemplateAdd(name, path, fault)
    \/ \E name \in LiveNames, fault \in TemplateSaveFaults :
           TemplateRemove(name, fault)
    \/ TemplateList
    \/ \E n \in Names, t \in LiveNames : CreateProject(n, t, 1, 0)

SpecCustom == InitRegistry /\ [][NextCustom]_vars

(***************************************************************************)
(* Properties of the registry (SpecRegistry).                              *)
(***************************************************************************)
\* C1: starting from the empty registry, after any sequence of add_project
\* and remove_project calls, also when followed by save and load, the
\* registry holds at most one record per name, and the record of each name
\* still present is the one most recently passed to add_project for it.
UniqueLatest ==
    hist.inSync =>
        /\ \A i, j \in 1..Len(registry) :
               registry[i].name = registry[j].name => i = j
        /\ \A i \in 1..Len(registry) :
               hist.added[registry[i].name] = Some(registry[i])

\* a load, after a save, of two records, one of which replaced an earlier
\* record of its name
UniqueLatestWitness ==
    /\ hist.inSync
    /\ hist.replaced
    /\ last.op = "load"
    /\ last.result = "Ok"
    /\ Len(registry) = 2

\* C2: for every registry, the empty one included, a load that follows a
\* successful save succeeds and yields the same records in the same order
\* with the same name, path, template, created_at and last_built.
SaveLoadRoundTrip ==
    [][(last.op = "save" /\ last.result = "Ok" /\ last'.op = "load")
        => (last'.result = "Ok" /\ registry' = registry)]_vars

\* a load, after a save, of a built record followed by one never built
SaveLoadWitness ==
    /\ hist.inSync
    /\ last.op = "load"
    /\ last.result = "Ok"
    /\ Len(registry) = 2
    /\ registry[1].last_built # None
    /\ registry[2].last_built = None

CreateThenGet ==
    (last.op = "create_project" /\ last.result = "Ok" /\ last.arg \in BuiltIn)
    => LET got == get_project(registry, last.name) IN
       /\ got # None
       /\ got[1].name = last.name
       /\ got[1].template = last.arg
       /\ got[1].path = ProjectsDir \o <<last.name>>
       /\ got[1].last_built = None
       /\ last.value = got
       /\ doc.state = "ok"
       /\ get_project(LoadValue(doc), last.name) = got
       /\ disk[last.name].kind = "dir"
       /\ \A f \in TemplateFiles(last.arg) :
              \E e \in disk[last.name].files :
                  e.path = f /\ e.type = "file" /\ e.data # <<>>

\* a successful create_project of a Go project next to a project of
\* another template
CreateThenGetWitness ==
    /\ last.op = "create_project"
    /\ last.result = "Ok"
    /\ last.arg = "go"
    /\ Len(registry) = 2
    /\ registry[1].template # "go"

\* C5: after remove_project(name) succeeds, get_project(name) finds
\* nothing, the persisted document has no record of the name, the
\* project's directory is gone, and the records and the directories of the
\* other names are as before.
RemoveCleansBoth ==
    [][(last'.op = "remove_project" /\ last'.result = "Ok")
        => (/\ get_project(registry', last'.name) = None
            /\ doc'.state = "ok"
            /\ get_project(LoadValue(doc'), last'.name) = None
            /\ disk'[last'.name].kind = "absent"
            /\ \A m \in Names \ {last'.name} :
                   /\ get_project(registry', m) = get_project(registry, m)
                   /\ get_project(LoadValue(doc'), m) = get_project(registry, m)
                   /\ disk'[m] = disk[m])]_vars

\* a successful remove_project that deleted a directory and left the
\* project of the other name, with its directory
RemoveCleansBothWitness ==
    /\ last.op = "remove_project"
    /\ last.result = "Ok"
    /\ Len(registry) = 1
    /\ disk[registry[1].name].kind = "dir"
    /\ disk[last.name].kind = "absent"

\* C6: when deleting the directory fails in remove_project(name), the call
\* returns the error with the registry untouched: the record of the name is
\* still in the registry in memory and the persisted document is as it
\* was.
DeleteFailureKeepsRecord ==
    [][(last'.op = "remove_project" /\ last'.at = "remove_dir_all")
        => (/\ last'.result = "IoError"
            /\ registry' = registry
            /\ doc' = doc
            /\ get_project(registry', last'.name) # None
            /\ (get_project(LoadValue(doc), last'.name) # None
                   => get_project(LoadValue(doc'), last'.name) # None)
            /\ disk'[last'.name].kind # "absent")]_vars

\* a remove_project whose deletion failed partway, the record being both
\* in memory and in the document
DeleteFailureWitness ==
    /\ last.op = "remove_project"
    /\ last.at = "remove_dir_all"
    /\ disk[last.name].kind = "dir"
    /\ Cardinality(disk[last.name].files) = 2
    /\ get_project(registry, last.name) # None
    /\ get_project(LoadValue(doc), last.name) # None

\* C7: remove_project(name) for a name the registry has no record of fails
\* with the not-found error and changes nothing: no directory is deleted,
\* the registry in memory is unchanged and the document is not rewritten.
RemoveUnknownChangesNothing ==
    [][(last'.op = "remove_project" /\ get_project(registry, last'.name) = None)
        => (/\ last'.result = "NotFound"
            /\ UNCHANGED <<registry, doc, disk>>)]_vars

\* a remove_project turned away for a name without a record whose
\* directory exists, the registry having another record
RemoveUnknownWitness ==
    /\ last.op = "remove_project"
    /\ last.result = "NotFound"
    /\ disk[last.name].kind = "dir"
    /\ disk[last.name].files # {}
    /\ registry # <<>>

\* C8: when the instantiation fails in create_project(name, T), for an
\* unknown template or a filesystem call failing partway, the call returns
\* the error, the registry in memory and the persisted document are as
\* before, and what the instantiation had made of the directory stays on
\* disk.
FailedInstantiationLeavesNoRecord ==
    [][(last'.op = "create_project" /\ last'.at \in {"create_dir_all", "template"})
        => (/\ last'.result \in {"UnknownTemplate", "IoError"}
            /\ registry' = registry
            /\ doc' = doc
            /\ \A m \in Names \ {last'.name} : disk'[m] = disk[m]
            /\ last'.at = "create_dir_all" => disk'[last'.name].kind = "absent"
            /\ last'.result = "UnknownTemplate" => disk'[last'.name] = DirWith({})
            /\ (last'.at = "template" /\ last'.result = "IoError")
                   => \E k \in 0..(Len(TemplateCalls(last'.arg, {}, last'.name, templates)) - 1) :
                          disk'[last'.name] =
                              DirWith(ApplyCalls({},
                                  TemplateCalls(last'.arg, {}, last'.name, templates), k)))]_vars

\* a create_project that failed after the instantiation had written two
\* entries, which are on disk with no record of the name
FailedInstantiationWitness ==
    /\ last.op = "create_project"
    /\ last.at = "template"
    /\ last.result = "IoError"
    /\ Cardinality(disk[last.name].files) = 2
    /\ get_project(registry, last.name) = None
    /\ get_project(LoadValue(doc), last.name) = None

(***************************************************************************)
(* Properties of the template manager (SpecTemplate).                      *)
(***************************************************************************)
\* C9: create_project_from_template(t, dir, n) with t neither built-in nor
\* a registered custom template fails with the unknown-template error once
\* dir is there, and all it does to the disk is to make dir, empty, when
\* there was nothing at dir; when dir cannot be made the call fails on that
\* and the disk is as before.  No file is written either way.
UnknownTemplateRejected ==
    [][(/\ last'.op = "create_project_from_template"
        /\ last'.arg \notin BuiltIn
        /\ last'.arg \notin TemplateNames(templates))
        => (/\ UNCHANGED <<registry, doc, templates>>
            /\ \A m \in Names \ {last'.name} : disk'[m] = disk[m]
            /\ last'.at # "create_dir_all"
                   => /\ last'.result = "UnknownTemplate"
                      /\ disk[last'.name].kind # "file"
                      /\ disk'[last'.name] = IF disk[last'.name].kind = "absent"
                                             THEN DirWith({})
                                             ELSE disk[last'.name]
            /\ last'.at = "create_dir_all"
                   => /\ last'.result = "IoError"
                      /\ disk' = disk)]_vars

\* an unknown template turned away while a custom template is registered,
\* leaving the directory it made, empty
UnknownTemplateWitness ==
    /\ last.op = "create_project_from_template"
    /\ last.result = "UnknownTemplate"
    /\ last.arg = "nope"
    /\ templates # {}
    /\ disk[last.name] = DirWith({})

(***************************************************************************)
(* Properties of the installer (SpecInstall).                              *)
(***************************************************************************)
\* C10: when install_project(p) is called again after it succeeded, with no
\* other call in between and the artifact of p resolvable, it succeeds,
\* bin_dir/p.name points at the artifact it resolved (a link to it, or a
\* copy of it where there are no links), and bin_dir is as the first call
\* left it when the artifact is the same.  (A step that leaves both the
\* record of the last call and bin_dir as they were is no second call, or
\* one that repeats the first in every respect.)
IdempotentInstall ==
    [][(/\ <<last, binDir>>' # <<last, binDir>>
        /\ last.op = "install_project"
        /\ last.result = "Ok"
        /\ last'.op = "install_project"
        /\ last'.name = last.name
        /\ last'.at # "find_project_binary")
        => (/\ last'.result = "Ok"
            /\ binDir'[last'.name] =
                   IF unix THEN BinLink(last'.value[1])
                   ELSE BinFile(FileData(disk, last'.value[1]))
            /\ last'.value = last.value => binDir' = binDir)]_vars

\* an install_project that failed on the link an earlier one had left,
\* whose target is gone while the debug output is there
StaleLinkBlocksInstall ==
    /\ last.op = "install_project"
    /\ last.result = "IoError"
    /\ last.at = "symlink"
    /\ binDir[last.name] = BinLink(ProjectPath(last.name) \o <<"target", "release", last.name>>)
    /\ PathExists(disk, ProjectPath(last.name) \o <<"target", "debug", last.name>>)

\* C11: whatever is at bin_dir/p.name before the call, a regular file, a
\* link whose target exists or a link whose target is gone,
\* install_project(p) with the artifact of p resolvable succeeds and leaves
\* bin_dir/p.name pointing at the artifact it resolved, the entries of the
\* other names being as before.  (A step that leaves both the record of the
\* last call and bin_dir as they were is a call that repeats the one
\* before in every respect, or no call.)
InstallReplacesEntry ==
    [][(/\ <<last, binDir>>' # <<last, binDir>>
        /\ last'.op = "install_project"
        /\ last'.at # "find_project_binary"
        /\ binDir[last'.name].kind # "absent")
        => (/\ last'.result = "Ok"
            /\ binDir'[last'.name] =
                   IF unix THEN BinLink(last'.value[1])
                   ELSE BinFile(FileData(disk, last'.value[1]))
            /\ \A m \in Names \ {last'.name} : binDir'[m] = binDir[m])]_vars

\* an install_project that failed on a link to the debug output, which is
\* gone, while the release output is there
DanglingLinkBlocksInstall ==
    /\ last.op = "install_project"
    /\ last.result = "IoError"
    /\ binDir[last.name] = BinLink(ProjectPath(last.name) \o <<"target", "debug", last.name>>)
    /\ ~PathExists(disk, ProjectPath(last.name) \o <<"target", "debug", last.name>>)
    /\ PathExists(disk, ProjectPath(last.name) \o <<"target", "release", last.name>>)

\* C12: uninstall_project(name) succeeds whether or not there is an entry;
\* afterwards nothing is at bin_dir/name, be it that a regular file or a
\* link with or without its target was there, list_installed does not
\* report the name, and the entries of the other names are as before.
UninstallRemovesEntry ==
    [][(/\ <<last, binDir>>' # <<last, binDir>>
        /\ last'.op = "uninstall_project")
        => (/\ last'.result = "Ok"
            /\ binDir'[last'.name].kind = "absent"
            /\ \A i \in 1..Len(list_installed(binDir')) :
                   list_installed(binDir')[i] # last'.name
            /\ \A m \in Names \ {last'.name} : binDir'[m] = binDir[m])]_vars

\* an uninstall_project that returned with the link still in bin_dir, its
\* target being gone, and list_installed reporting the name
DanglingLinkSurvivesUninstall ==
    /\ last.op = "uninstall_project"
    /\ last.result = "Ok"
    /\ binDir[last.name].kind = "link"
    /\ ~PathExists(disk, binDir[last.name].target)
    /\ \E i \in 1..Len(list_installed(binDir)) : list_installed(binDir)[i] = last.name

(***************************************************************************)
(* Properties of the artifact resolver (SpecResolve).                      *)
(***************************************************************************)
\* C13: for a record with template "rust", find_project_binary returns
\* path/target/release/name whenever that file is there, returns
\* path/target/debug/name exactly when the release output is not there and
\* the debug output is, fails with the not-found error exactly when neither
\* is there, and leaves the filesystem as it was.  (A step that leaves the
\* record of the last call as it was is a call that repeats the one
\* before, or no call.)
RustArtifactFallback ==
    [][(last' # last /\ last'.op = "find_project_binary" /\ last'.arg = "rust")
        => LET n == last'.name
               path == get_project(registry, n)[1].path
               has(profile) ==
                   /\ disk[n].kind = "dir"
                   /\ \E e \in disk[n].files : e.path = <<"target", profile, n>>
               release == path \o <<"target", "release", n>>
               debug == path \o <<"target", "debug", n>>
           IN /\ UNCHANGED <<registry, doc, disk, templates, binDir>>
              /\ path = ProjectsDir \o <<n>>
              /\ has("release") => (last'.result = "Ok" /\ last'.value = Some(release))
              /\ (last'.result = "Ok" /\ last'.value = Some(debug))
                     <=> (~has("release") /\ has("debug"))
              /\ last'.result = "NoBinary" <=> (~has("release") /\ ~has("debug"))]_vars

\* a resolution that fell back to the debug output after the release
\* output, whose directory is still there, was deleted
RustArtifactFallbackWitness ==
    /\ last.op = "find_project_binary"
    /\ last.arg = "rust"
    /\ last.result = "Ok"
    /\ last.value = Some(ProjectPath(last.name) \o <<"target", "debug", last.name>>)
    /\ <<"target", "release">> \in NodePaths(disk[last.name].files)

\* C14: for a record whose template is none of the seven built-in
\* identifiers, whatever the project directory holds, find_project_binary
\* fails with the unknown-template error, binary_exists is false and
\* install_project fails with that error and leaves bin_dir as it was; a
\* project that create_project made from a registered custom template is
\* such a record of the registry.
CustomTemplateNeverResolves ==
    [][/\ (/\ last' # last
           /\ last'.op \in {"find_project_binary", "binary_exists", "install_project"}
           /\ last'.arg \notin BuiltIn)
          => (/\ UNCHANGED <<registry, doc, disk, templates, binDir>>
              /\ last'.op = "find_project_binary" => last'.result = "UnknownTemplate"
              /\ last'.op = "binary_exists" => last'.result = "false"
              /\ last'.op = "install_project" => last'.result = "UnknownTemplate")
       /\ (/\ last' # last
           /\ last'.op = "create_project"
           /\ last'.result = "Ok"
           /\ last'.arg \notin BuiltIn)
          => (/\ get_project(registry', last'.name) # None
              /\ get_project(registry', last'.name)[1].template = last'.arg)
       /\ \A i \in 1..Len(registry) :
              \E j \in 1..Len(registry') : registry'[j].name = registry[i].name]_vars

\* an install_project turned away for a project made from a custom
\* template that is no longer registered, with a release output built in
\* its directory
CustomTemplateWitness ==
    /\ last.op = "install_project"
    /\ last.result = "UnknownTemplate"
    /\ last.arg = "mytpl"
    /\ templates = {}
    /\ PathExists(disk, ProjectPath(last.name) \o <<"target", "release", last.name>>)
    /\ PathExists(disk, ProjectPath(last.name) \o <<"README.md">>)

AddTemplateContract ==
    [][last'.op = "add_template" =>
           LET name == last'.name
               path == last'.arg
               directory == path \in {<<"my-template">>, <<"other-template">>}
           IN /\ last'.result = "InvalidPath" <=> ~directory
              /\ last'.result = "InvalidPath" =>
                     UNCHANGED <<custom_templates, templates>>
              /\ last'.result = "Ok" =>
                     /\ custom_templates' =
                            {c \in custom_templates : c.name # name}
                                \cup {CustomTemplate(name, path)}
                     /\ templates' = custom_templates'
              /\ UNCHANGED <<registry, doc, disk, binDir>>]_vars

\* a registration under a name of its own has been replaced by one of
\* another directory, next to a second registered name, and persisted
AddTemplateWitness ==
    /\ last.op = "add_template"
    /\ last.result = "Ok"
    /\ last.name = "mytpl"
    /\ last.arg = <<"other-template">>
    /\ custom_templates =
           {CustomTemplate("mytpl", <<"other-template">>),
            CustomTemplate("rust", TemplateDir)}
    /\ templates = custom_templates

\* C17: remove_template(name) fails with the not-found error exactly when
\* name is not in the table of the manager, and then table and document are
\* what they were; a call that succeeds leaves the table without the entry
\* and the document equal to the table.  In every case the registry, its
\* document and the project directories are untouched, so the records of
\* projects created from the template keep its name.
RemoveTemplateContract ==
    [][last'.op = "remove_template" =>
           LET name == last'.name
               registered == \E c \in custom_templates : c.name = name
           IN /\ last'.result = "NotFound" <=> ~registered
              /\ last'.result = "NotFound" =>
                     UNCHANGED <<custom_templates, templates>>
              /\ last'.result = "Ok" =>
                     /\ custom_templates' =
                            {c \in custom_templates : c.name # name}
                     /\ templates' = custom_templates'
              /\ UNCHANGED <<registry, doc, disk, binDir>>]_vars

\* the custom template has been removed and is in neither table nor
\* document, while a project created from it is still recorded under the
\* template name, in memory and in the document, and has its directory
RemoveTemplateWitness ==
    /\ last.op = "remove_template"
    /\ last.result = "Ok"
    /\ last.name = "mytpl"
    /\ "mytpl" \notin TemplateNames(custom_templates)
    /\ "mytpl" \notin TemplateNames(templates)
    /\ \E i \in 1..Len(registry) :
           /\ registry[i].template = "mytpl"
           /\ disk[registry[i].name].kind = "dir"
    /\ doc = DocOf(registry)

\* C18: the listing returned by list_templates never holds a built-in
\* identifier (rust, python, node, go, bash, zsh, bun) more than once,
\* whatever add_template and remove_template have registered.  add_template
\* takes a built-in identifier as a name, so this does not hold of the code.
NoBuiltInListedTwice ==
    last.op = "list_templates" =>
        \A b \in {"rust", "python", "node", "go", "bash", "zsh", "bun"} :
            Cardinality({i \in 1..Len(last.value[1]) : last.value[1][i] = b}) <= 1

\* a directory has been registered under the name rust, and the listing
\* returned holds rust twice
BuiltInListedTwice ==
    /\ last.op = "list_templates"
    /\ CustomTemplate("rust", TemplateDir) \in custom_templates
    /\ last.value =
           Some(<<"bash", "bun", "go", "node", "python", "rust", "rust", "zsh">>)

(***************************************************************************)
(* Properties of the persisted registry document (SpecRegistry).           *)
(***************************************************************************)
\* C19: load never changes the persisted document; where there is no
\* document it succeeds with the empty registry and there is still no
\* document afterwards; where the document is malformed it fails with the
\* parse error and yields no registry.
LoadContract ==
    [][last'.op = "load" =>
           /\ doc' = doc
           /\ doc.state = "absent" =>
                  /\ last'.result = "Ok"
                  /\ registry' = <<>>
                  /\ doc'.state = "absent"
           /\ doc.state = "malformed" =>
                  /\ last'.result = "ParseError"
                  /\ last'.value = None
                  /\ registry' = registry]_vars

\* a load of a malformed document has failed with the parse error: the
\* document is as malformed as before and the caller's records are its own
LoadMalformedWitness ==
    /\ last.op = "load"
    /\ last.result = "ParseError"
    /\ doc.state = "malformed"
    /\ Len(registry) = 2

\* C20: add_project, remove_project, get_project and list_projects leave
\* the persisted document as it is; a step that changes the document is a
\* save, and a save that succeeds writes the whole registry in memory; so
\* what a load returns is, until the next save, what the last save wrote.
OnlySaveWrites ==
    [][/\ last'.op \in {"add_project", "remove_project", "get_project",
                        "list_projects"} => doc' = doc
       /\ doc' # doc => last'.op = "save"
       /\ (last'.op = "save" /\ last'.result = "Ok") =>
              /\ doc' = [state |-> "ok", json |-> RegistryToJson(registry)]
              /\ registry' = registry
       /\ last'.op # "save" =>
              /\ LoadResult(doc') = LoadResult(doc)
              /\ LoadValue(doc') = LoadValue(doc)
       /\ (last'.op = "load" /\ last'.result = "Ok") =>
              registry' = LoadValue(doc)]_vars

\* two records were saved, other calls were made on the registry since,
\* and the load that followed them has returned the two records saved
OnlySaveWritesWitness ==
    /\ last.op = "load"
    /\ last.result = "Ok"
    /\ ~hist.inSync
    /\ Len(registry) = 2
    /\ doc = DocOf(registry)

(***************************************************************************)
(* Properties across the registry, the disk and bin_dir (Spec, SpecInstall *)
(* and the specifications that follow them).                               *)
(***************************************************************************)
\* C21, as stated: in every state reached by create_project and
\* remove_project calls, successful or failing, every record of the
\* registry has the path projects_dir/name and that directory is on disk.
EveryRecordHasDirectory ==
    \A i \in 1..Len(registry) :
        /\ registry[i].path = <<"murex-projects", registry[i].name>>
        /\ disk[registry[i].name].kind = "dir"

\* C21, as it holds: a create_project or remove_project call, successful or
\* failing, made on a registry whose every record has the path
\* projects_dir/name and its directory on disk leaves the registry in
\* memory so.  (The document can keep the record of a deleted directory
\* when the save of remove_project fails, and the next manager loads it.)
CallsKeepRecordsOnDisk ==
    [][((\A i \in 1..Len(registry) :
            /\ registry[i].path = <<"murex-projects", registry[i].name>>
            /\ disk[registry[i].name].kind = "dir")
        /\ last'.op \in {"create_project", "remove_project"})
       => (\A i \in 1..Len(registry') :
               /\ registry'[i].path = <<"murex-projects", registry'[i].name>>
               /\ disk'[registry'[i].name].kind = "dir")]_vars

\* a remove_project has deleted the directory and failed in its save: the
\* registry in memory holds one record, with its directory, and the
\* document still holds the record of the directory that is gone
StaleRecordPersistedWitness ==
    /\ last.op = "remove_project"
    /\ last.result = "IoError"
    /\ last.at = "save"
    /\ disk[last.name].kind = "absent"
    /\ Len(registry) = 1
    /\ disk[registry[1].name].kind = "dir"
    /\ doc.state = "ok"
    /\ \E i \in 1..Len(doc.json) : doc.json[i].name = JsonString(last.name)

\* C22: an install_project that cannot resolve the artifact of the project,
\* because no output is found or because the template is not one the
\* resolver knows, leaves bin_dir as it was, an entry of the name of the
\* project included.
UnresolvedInstallLeavesBinDir ==
    [][(/\ <<last, binDir>>' # <<last, binDir>>
        /\ last'.op = "install_project"
        /\ last'.result \in {"NoBinary", "UnknownTemplate"})
       => UNCHANGED <<binDir, disk, registry, doc>>]_vars

\* a project of a custom template, created under the name of a project
\* that had been installed and removed, could not be installed, and the
\* link of the earlier install is still there
UnresolvedInstallWitness ==
    /\ last.op = "install_project"
    /\ last.result = "UnknownTemplate"
    /\ binDir[last.name].kind = "link"

\* C23: whatever the custom template table holds, a registration under the
\* name rust included, a project created from the identifier rust holds
\* the files of the built-in Rust template and nothing else: nothing of the
\* source directory of a custom template is copied into it.
BuiltInDispatchedFirst ==
    [][(/\ last'.op = "create_project"
        /\ last'.arg = "rust"
        /\ last'.result = "Ok")
       => LET n == last'.name
              files == disk'[n].files
          IN /\ {e.path : e \in files} =
                    {<<"Cargo.toml">>, <<"src">>, <<"src", "main.rs">>,
                     <<"README.md">>}
             /\ \A e \in files :
                    /\ e.path = <<"README.md">> =>
                           e.data = <<"# ", n, " cargo build --release">>
                    /\ \A i \in 1..Len(e.data) : e.data[i] # "{{PROJECT_NAME}}"
             /\ \A src \in 1..Len(TemplateSource) :
                    TemplateSource[src].path # <<"README.md">> =>
                        \A e \in files : e.path # TemplateSource[src].path]_vars

\* a project has been created from rust while the document registered a
\* custom template under the name rust
BuiltInDispatchedFirstWitness ==
    /\ last.op = "create_project"
    /\ last.arg = "rust"
    /\ last.result = "Ok"
    /\ "rust" \in TemplateNames(templates)
    /\ disk[last.name].kind = "dir"

(***************************************************************************)
(* Properties of the built-in templates (SpecBuiltIn, SpecScripts).        *)
(***************************************************************************)
\* C24, as stated: the files of a project created from a built-in template
\* are a manifest or build descriptor, one source or entry file and a
\* README.
ManifestEntryReadme ==
    \A i \in 1..Len(registry) :
        LET paths == {e.path : e \in {f \in disk[registry[i].name].files :
                                          f.type = "file"}}
        IN \E m \in {<<"Cargo.toml">>, <<"requirements.txt">>,
                     <<"package.json">>, <<"go.mod">>} :
           \E s \in {<<"src", "main.rs">>, <<"main.py">>, <<"index.js">>,
                     <<"main.go">>, <<"main.sh">>, <<"main.zsh">>, <<"bun.js">>} :
               paths = {m, s, <<"README.md">>}

\* C24, as it holds: the files of a project created from a built-in
\* template are fixed by the template: one source or entry file and a
\* README, both naming the project, and for rust, python, node and go
\* (not for bash, zsh and bun) a manifest or build descriptor as well; two
\* projects of one template hold the same files with the same contents but
\* for the project name, whenever they were created.
BuiltInFilesFixed ==
    \A i \in 1..Len(registry) :
        LET r == registry[i]
            files == {f \in disk[r.name].files : f.type = "file"}
            paths == {e.path : e \in files}
            named(data, a, b) ==
                [k \in 1..Len(data) |-> IF data[k] = a THEN b ELSE data[k]]
        IN /\ paths =
                  CASE r.template = "rust" ->
                           {<<"Cargo.toml">>, <<"src", "main.rs">>, <<"README.md">>}
                    [] r.template = "python" ->
                           {<<"requirements.txt">>, <<"main.py">>, <<"README.md">>}
                    [] r.template = "node" ->
                           {<<"package.json">>, <<"index.js">>, <<"README.md">>}
                    [] r.template = "go" ->
                           {<<"go.mod">>, <<"main.go">>, <<"README.md">>}
                    [] r.template = "bash" -> {<<"main.sh">>, <<"README.md">>}
                    [] r.template = "zsh" -> {<<"main.zsh">>, <<"README.md">>}
                    [] r.template = "bun" -> {<<"bun.js">>, <<"README.md">>}
           /\ \A e \in files :
                  e.path \notin {<<"requirements.txt">>} =>
                      \E k \in 1..Len(e.data) : e.data[k] = r.name
           /\ \A j \in 1..Len(registry) :
                  registry[j].template = r.template =>
                      {[e EXCEPT !.data = named(e.data, r.name, registry[j].name)] :
                           e \in disk[r.name].files}
                          = disk[registry[j].name].files

\* two projects of the bash template, created at different times: each
\* holds an entry file and a README and no manifest
BuiltInFilesWitness ==
    /\ Len(registry) = 2
    /\ registry[1].template = "bash"
    /\ registry[2].template = "bash"
    /\ registry[1].created_at # registry[2].created_at
    /\ {e.path : e \in disk[registry[1].name].files} =
           {<<"main.sh">>, <<"README.md">>}
    /\ {e.path : e \in disk[registry[2].name].files} =
           {<<"main.sh">>, <<"README.md">>}

(***************************************************************************)
(* Properties of two processes on one registry document (SpecRace).        *)
(***************************************************************************)
\* C25: once two processes have each run load, one add_project or
\* remove_project, and save, on different names: if the process that saved
\* last had loaded before the other saved, the document lacks the update
\* of the process that saved first (a record it added is not there, a
\* record it removed is) and has that of the last; if it had loaded after
\* the other saved, the document has both updates.
LastWriterWins ==
    \A p \in {"p1", "p2"} : \A q \in {"p1", "p2"} \ {p} :
        (procs[p].saved = 1 /\ procs[q].saved = 2) =>
            LET saved == IF doc.state = "ok" THEN RegistryFromJson(doc.json)
                         ELSE <<>>
                up == procs[p].update[1]
                uq == procs[q].update[1]
                has(u) == IF u.kind = "add"
                          THEN \E i \in 1..Len(saved) : saved[i] = u.project[1]
                          ELSE \A i \in 1..Len(saved) : saved[i].name # u.name
                unchanged(u) ==
                    \A i \in 1..Len(procs[p].base) :
                        procs[p].base[i].name = u.name =>
                            \E j \in 1..Len(saved) : saved[j] = procs[p].base[i]
                effective(u) ==
                    u.kind = "remove" =>
                        \E i \in 1..Len(procs[p].base) :
                            procs[p].base[i].name = u.name
            IN up.name # uq.name =>
                  /\ has(uq)
                  /\ procs[q].after => has(up)
                  /\ (~procs[q].after /\ effective(up)) =>
                         (~has(up) /\ unchanged(up))

\* both processes loaded the empty registry before either saved; the first
\* added foo and saved, the second added bar and saved: the document
\* holds bar alone
LostUpdateWitness ==
    /\ procs["p1"].saved = 1
    /\ procs["p2"].saved = 2
    /\ ~procs["p2"].after
    /\ procs["p1"].update[1].kind = "add"
    /\ procs["p1"].update[1].name = "foo"
    /\ procs["p2"].update[1].kind = "add"
    /\ procs["p2"].update[1].name = "bar"
    /\ doc.state = "ok"
    /\ Len(doc.json) = 1
    /\ doc.json[1].name = JsonString("bar")

(***************************************************************************)
(* Properties of the steps of install_project (SpecSteps).                 *)
(***************************************************************************)
\* C26: between the removal step and the creation step of install_project,
\* and after the process has stopped there or the creation step has
\* failed, bin_dir holds nothing under the name of the project.  A link
\* whose target is gone is not removed by the first step, so this does not
\* hold of the code.
AbsentBetweenSteps ==
    /\ \A p \in {"p1", "p2"} :
           procs[p].pc = "creating" => binDir[procs[p].name].kind = "absent"
    /\ (/\ last.op = "install_project"
        /\ last.at \in {"crash", "symlink", "copy"})
       => binDir[last.name].kind = "absent"

\* an install is between its two steps, the artifact resolved, and
\* bin_dir still holds the link to an output that has been deleted
StaleLinkBetweenSteps ==
    \E p \in {"p1", "p2"} :
        /\ procs[p].pc = "creating"
        /\ binDir[procs[p].name].kind = "link"
        /\ binDir[procs[p].name].target # procs[p].path[1]
        /\ ~PathExists(disk, binDir[procs[p].name].target)

(***************************************************************************)
(* Properties of removed and half-made projects (SpecLifecycle, Spec).      *)
(***************************************************************************)
\* C27: remove_project leaves bin_dir as it is; an entry of bin_dir changes
\* only in an install_project or uninstall_project of its name; and
\* list_installed reports exactly the names that have an entry, whether or
\* not what a link points to is still there.  So the entry of a removed
\* project stays, and stays listed, until an uninstall_project removes it.
RemoveLeavesInstalled ==
    [][/\ last'.op = "remove_project" => binDir' = binDir
       /\ \A n \in {"foo", "bar"} :
              binDir'[n] # binDir[n] =>
                  /\ last'.op \in {"install_project", "uninstall_project"}
                  /\ last'.name = n
       /\ last'.op = "list_installed" =>
              \A n \in {"foo", "bar"} :
                  binDir[n].kind # "absent" <=>
                      \E i \in 1..Len(last'.value[1]) : last'.value[1][i] = n]_vars

\* foo was installed and removed: it has no record and no directory, its
\* link is in bin_dir, and list_installed has just reported it
RemoveLeavesInstalledWitness ==
    /\ last.op = "list_installed"
    /\ last.value = Some(<<"foo">>)
    /\ get_project(registry, "foo") = None
    /\ disk["foo"].kind = "absent"
    /\ binDir["foo"].kind = "link"

\* C28: for a project of a script-entry template (python, node, bash, zsh,
\* bun) find_project_binary resolves to the entry file the template wrote
\* and binary_exists is true, with no build; for a project of a compiled
\* template (rust, go) that holds no build output find_project_binary
\* fails with the not-found error and binary_exists is false.  A Go
\* project named after a file of its template resolves to that file, so
\* this does not hold of the code.
ScriptsResolveCompiledWait ==
    [][(/\ last' # last
        /\ last'.op \in {"find_project_binary", "binary_exists"})
       => LET n == last'.name
              t == last'.arg
              entry == CASE t = "python" -> <<"main.py">>
                         [] t = "node" -> <<"index.js">>
                         [] t = "bash" -> <<"main.sh">>
                         [] t = "zsh" -> <<"main.zsh">>
                         [] t = "bun" -> <<"bun.js">>
                         [] OTHER -> <<>>
              built == \E e \in disk[n].files :
                           e.type = "file" /\ e.data[1] = "ELF "
          IN /\ t \in {"python", "node", "bash", "zsh", "bun"} =>
                    IF last'.op = "binary_exists" THEN last'.result = "true"
                    ELSE /\ last'.result = "Ok"
                         /\ last'.value = Some(<<"murex-projects", n>> \o entry)
             /\ (t \in {"rust", "go"} /\ ~built) =>
                    IF last'.op = "binary_exists" THEN last'.result = "false"
                    ELSE last'.result = "NoBinary"]_vars

\* a Go project named main.go has not been built, and find_project_binary
\* has resolved to the source file main.go that the template wrote
GoSourceResolved ==
    /\ last.op = "find_project_binary"
    /\ last.name = "main.go"
    /\ last.arg = "go"
    /\ last.result = "Ok"
    /\ last.value = Some(<<"murex-projects", "main.go", "main.go">>)
    /\ \A e \in disk["main.go"].files : e.data[1] # "ELF "

\* C29, as stated: after a create_project(name, T) that failed with the
\* unknown-template error, or partway through the instantiation, the next
\* call on the name finds the directory in its way: a create_project fails
\* with the already-exists error, whatever its template, and a
\* remove_project fails with the not-found error and leaves the directory.
HalfMadeBlocksName ==
    [][(/\ last.op = "create_project"
        /\ last.at = "template"
        /\ last'.name = last.name
        /\ last'.op \in {"create_project", "remove_project"})
       => /\ last'.result = IF last'.op = "create_project"
                            THEN "AlreadyExists" ELSE "NotFound"
          /\ disk' = disk]_vars

\* C29, as it holds: a create_project(name, T) that fails with the
\* unknown-template error, or partway through the instantiation, leaves
\* the directory projects_dir/name and adds no record; and while there is
\* a directory of a name that the registry has no record of, every
\* create_project of the name fails with the already-exists error and
\* every remove_project of it with the not-found error, and both leave
\* disk and registry as they are.
HalfMadeBlocksUnrecorded ==
    [][/\ (last'.op = "create_project" /\ last'.at = "template") =>
              /\ disk[last'.name].kind = "absent"
              /\ disk'[last'.name].kind = "dir"
              /\ UNCHANGED <<registry, doc>>
       /\ (/\ last'.op \in {"create_project", "remove_project"}
           /\ disk[last'.name].kind = "dir"
           /\ \A i \in 1..Len(registry) : registry[i].name # last'.name)
          => /\ last'.result = IF last'.op = "create_project"
                               THEN "AlreadyExists" ELSE "NotFound"
             /\ UNCHANGED <<registry, doc, disk>>]_vars

\* a create_project from the Rust template has failed with the
\* already-exists error on the empty directory that a create_project from
\* an unknown template left, of a name the registry has no record of
HalfMadeWitness ==
    /\ last.op = "create_project"
    /\ last.arg = "rust"
    /\ last.result = "AlreadyExists"
    /\ disk[last.name] = DirWith({})
    /\ \A i \in 1..Len(registry) : registry[i].name # last.name

\* C30: remove_project(name) of a project that has a record and no
\* directory deletes nothing and, unless its save fails, succeeds; the
\* record is gone from the registry in memory and, when it succeeds, from
\* the document.  project_exists and get_project answer by the record
\* alone, whether or not the directory is there.
StaleRecordRemovable ==
    [][/\ (/\ last' # last
           /\ last'.op = "remove_project"
           /\ \E i \in 1..Len(registry) : registry[i].name = last'.name
           /\ disk[last'.name].kind = "absent")
          => /\ disk' = disk
             /\ last'.result = "Ok" \/ (last'.result = "IoError" /\ last'.at = "save")
             /\ \A i \in 1..Len(registry') : registry'[i].name # last'.name
             /\ Len(registry') = Len(registry) - 1
             /\ last'.result = "Ok" =>
                    doc' = [state |-> "ok", json |-> RegistryToJson(registry')]
       /\ last'.op = "project_exists" =>
              (last'.result = "true" <=>
                   \E i \in 1..Len(registry) : registry[i].name = last'.name)
       /\ last'.op = "get_project" =>
              (last'.result = "Ok" <=>
                   \E i \in 1..Len(registry) : registry[i].name = last'.name)]_vars

\* the directory of a recorded project has been deleted from outside, and
\* project_exists has answered that the project exists
StaleRecordWitness ==
    /\ last.op = "project_exists"
    /\ last.result = "true"
    /\ disk[last.name].kind = "absent"
    /\ \E i \in 1..Len(registry) : registry[i].name = last.name
    /\ doc = DocOf(registry)

====
